---- MODULE Spec2Model ----
(***************************************************************************)
(* Respawn timer bot: the respawn calculator (app/services.py) and the     *)
(* notification tick with its deduplication ledger (bot.py).               *)
(*                                                                         *)
(* Instants are integers: seconds on one time line (the bot converts every *)
(* stored naive datetime back to the same fixed UTC+3 zone, so wall clock  *)
(* arithmetic and absolute arithmetic agree).  Instant 0 is 04.02.2026     *)
(* 00:00, the day used by test_respawn_logic.py.  Sub-second parts of a    *)
(* datetime are not represented.                                           *)
(*                                                                         *)
(* An optional value (Python's None) is a sequence of length 0 or 1.       *)
(***************************************************************************)
EXTENDS Integers, Sequences, FiniteSets, TLC

None == <<>>

Some(v) == <<v>>

Val(o) == o[1]

\* total_seconds() / 60: one minute is 60 seconds
SecondsPerMinute == 60

\* timedelta(minutes=m) in seconds
Minutes(m) == m * SecondsPerMinute

\* hours of a day as minutes, as in datetime(2026, 2, 4, h, mi, s)
HMS(h, mi, s) == Minutes(h * 60 + mi) + s

\* the 2 minute window of `if elapsed <= 2`
GraceMinutes == 2

\* math.ceil(a / b) for a > 0, b > 0
CeilDiv(a, b) == (a + b - 1) \div b

(***************************************************************************)
(* Bounds of the calculator's input space.                                 *)
(***************************************************************************)
\* `now` ranges over 12:00:00, 12:00:30, ... in steps of 30 seconds
MaxNowSteps == 4

NowInstants == {HMS(12, 0, 0) + 30 * i : i \in 0..MaxNowSteps}

RestartInstants ==
    { HMS(9, 0, 0), HMS(13, 0, 0), HMS(11, 55, 0), HMS(11, 59, 30),
      HMS(11, 58, 30), HMS(11, 58, 0), HMS(11, 57, 59), HMS(12, 0, 0),
      HMS(11, 59, 59), HMS(9, 0, 0) - Minutes(2 * 24 * 60) }

KillInstants == { HMS(11, 30, 0), HMS(5, 0, 0), HMS(13, 0, 0) }

FirstSpawnValues == { 0, 1, 30, 60, 360 }

RespawnValues == { -120, 0, 1, 2, 120, 180, 480 }

Opt(S) == {None} \cup {Some(v) : v \in S}

VARIABLES
    clock,                  \* the wall clock read by now_moscow() / datetime.now(TZ)
    last_kill_at,           \* next_spawn_at: arguments of one call
    server_restart_at,
    first_spawn_minutes,
    respawn_minutes,
    now,
    result,                 \* next_spawn_at: the returned value
    calc_pc,                \* "call" before the call, "done" after it, "off" when unused
    bosses,                 \* table bosses: id -> row
    state_row,              \* table server_state, the row with id = 1
    kill_log,               \* table kill_log, in insertion order
    subscribers,            \* _subscribers
    sent_notifications,     \* _sent_notifications
    tick,                   \* locals of the running tick_notifications job
    handler,                \* the update handler in progress ("idle": none)
    budget,                 \* database-changing commands the users may still send
    dispatched,             \* history: the alerts ticks dispatched, in order
    suppressed,             \* history: the checks that found their key in the ledger
    faults,                 \* history: the evaluations of a boss that raised
    overlap,                \* locals of a second, overlapping tick_notifications job
    deliveries,             \* history: per dispatched alert, the chats and the sends
    contacted,              \* history: chats whose latest event is a command of theirs
    recycled                \* history: ledger entries whose boss id a new row was given

calc_vars == <<last_kill_at, server_restart_at, first_spawn_minutes,
               respawn_minutes, now, result, calc_pc>>

store_vars == <<bosses, state_row, kill_log>>

bot_vars == <<store_vars, subscribers, sent_notifications, tick, handler,
              budget, dispatched, suppressed, faults>>

job_vars == <<overlap, deliveries, contacted, recycled>>

vars == <<clock, calc_vars, bot_vars, job_vars>>

now_moscow == clock

(***************************************************************************)
(* Variants of next_spawn_at, each with one plausible slip.                *)
(***************************************************************************)
\* the kill anchor is caught up to `now` like the restart anchor
next_spawn_at_kill_catchup(lk, sr, fsm, rm, nw) ==
    IF rm <= 0 THEN None
    ELSE IF lk = None /\ sr = None THEN None
    ELSE LET first_spawn_at ==
                 IF lk # None THEN Val(lk) + Minutes(rm)
                 ELSE IF fsm # None THEN Val(sr) + Minutes(Val(fsm)) ELSE Val(sr)
             n == IF nw = None THEN now_moscow ELSE Val(nw)
         IN  IF n <= first_spawn_at THEN Some(first_spawn_at)
             ELSE LET elapsed == n - first_spawn_at
                  IN  IF elapsed <= Minutes(GraceMinutes)
                      THEN Some(first_spawn_at)
                      ELSE LET k == CeilDiv(elapsed, Minutes(rm))
                           IN  Some(first_spawn_at + Minutes(k * rm))

\* the interval guard comes after the kill branch
next_spawn_at_guard_late(lk, sr, fsm, rm, nw) ==
    IF lk # None THEN Some(Val(lk) + Minutes(rm))
    ELSE IF rm <= 0 THEN None
    ELSE IF sr = None THEN None
    ELSE LET first_spawn_at ==
                 IF fsm # None THEN Val(sr) + Minutes(Val(fsm)) ELSE Val(sr)
             n == IF nw = None THEN now_moscow ELSE Val(nw)
         IN  IF n <= first_spawn_at THEN Some(first_spawn_at)
             ELSE LET elapsed == n - first_spawn_at
                  IN  IF elapsed <= Minutes(GraceMinutes)
                      THEN Some(first_spawn_at)
                      ELSE LET k == CeilDiv(elapsed, Minutes(rm))
                           IN  Some(first_spawn_at + Minutes(k * rm))

\* a missing restart anchor is replaced by `now`
next_spawn_at_anchor_now(lk, sr, fsm, rm, nw) ==
    IF rm <= 0 THEN None
    ELSE IF lk # None THEN Some(Val(lk) + Minutes(rm))
    ELSE LET n == IF nw = None THEN now_moscow ELSE Val(nw)
             anchor == IF sr = None THEN n ELSE Val(sr)
             first_spawn_at ==
                 IF fsm # None THEN anchor + Minutes(Val(fsm)) ELSE anchor
         IN  IF n <= first_spawn_at THEN Some(first_spawn_at)
             ELSE LET elapsed == n - first_spawn_at
                  IN  IF elapsed <= Minutes(GraceMinutes)
                      THEN Some(first_spawn_at)
                      ELSE LET k == CeilDiv(elapsed, Minutes(rm))
                           IN  Some(first_spawn_at + Minutes(k * rm))

\* no "still pending" return, and the grace test reads 0 < elapsed <= 2
next_spawn_at_no_pending(lk, sr, fsm, rm, nw) ==
    IF rm <= 0 THEN None
    ELSE IF lk # None THEN Some(Val(lk) + Minutes(rm))
    ELSE IF sr = None THEN None
    ELSE LET first_spawn_at ==
                 IF fsm # None THEN Val(sr) + Minutes(Val(fsm)) ELSE Val(sr)
             n == IF nw = None THEN now_moscow ELSE Val(nw)
             elapsed == n - first_spawn_at
         IN  IF 0 < elapsed /\ elapsed <= Minutes(GraceMinutes)
             THEN Some(first_spawn_at)
             ELSE LET k == CeilDiv(elapsed, Minutes(rm))
                  IN  Some(first_spawn_at + Minutes(k * rm))

\* no grace window: any past first occurrence is caught up
next_spawn_at_no_grace(lk, sr, fsm, rm, nw) ==
    IF rm <= 0 THEN None
    ELSE IF lk # None THEN Some(Val(lk) + Minutes(rm))
    ELSE IF sr = None THEN None
    ELSE LET first_spawn_at ==
                 IF fsm # None THEN Val(sr) + Minutes(Val(fsm)) ELSE Val(sr)
             n == IF nw = None THEN now_moscow ELSE Val(nw)
         IN  IF n <= first_spawn_at THEN Some(first_spawn_at)
             ELSE LET elapsed == n - first_spawn_at
                      k == CeilDiv(elapsed, Minutes(rm))
                  IN  Some(first_spawn_at + Minutes(k * rm))

\* the old loop `while next <= now: next += respawn`: floor + 1 cycles
next_spawn_at_floor_plus_one(lk, sr, fsm, rm, nw) ==
    IF rm <= 0 THEN None
    ELSE IF lk # None THEN Some(Val(lk) + Minutes(rm))
    ELSE IF sr = None THEN None
    ELSE LET first_spawn_at ==
                 IF fsm # None THEN Val(sr) + Minutes(Val(fsm)) ELSE Val(sr)
             n == IF nw = None THEN now_moscow ELSE Val(nw)
         IN  IF n <= first_spawn_at THEN Some(first_spawn_at)
             ELSE LET elapsed == n - first_spawn_at
                  IN  IF elapsed <= Minutes(GraceMinutes)
                      THEN Some(first_spawn_at)
                      ELSE LET k == (elapsed \div Minutes(rm)) + 1
                           IN  Some(first_spawn_at + Minutes(k * rm))

\* math.floor in place of math.ceil
next_spawn_at_floor(lk, sr, fsm, rm, nw) ==
    IF rm <= 0 THEN None
    ELSE IF lk # None THEN Some(Val(lk) + Minutes(rm))
    ELSE IF sr = None THEN None
    ELSE LET first_spawn_at ==
                 IF fsm # None THEN Val(sr) + Minutes(Val(fsm)) ELSE Val(sr)
             n == IF nw = None THEN now_moscow ELSE Val(nw)
         IN  IF n <= first_spawn_at THEN Some(first_spawn_at)
             ELSE LET elapsed == n - first_spawn_at
                  IN  IF elapsed <= Minutes(GraceMinutes)
                      THEN Some(first_spawn_at)
                      ELSE LET k == elapsed \div Minutes(rm)
                           IN  Some(first_spawn_at + Minutes(k * rm))

\* the grace window excludes its upper end (elapsed < 2)
next_spawn_at_grace_strict(lk, sr, fsm, rm, nw) ==
    IF rm <= 0 THEN None
    ELSE IF lk # None THEN Some(Val(lk) + Minutes(rm))
    ELSE IF sr = None THEN None
    ELSE LET first_spawn_at ==
                 IF fsm # None THEN Val(sr) + Minutes(Val(fsm)) ELSE Val(sr)
             n == IF nw = None THEN now_moscow ELSE Val(nw)
         IN  IF n <= first_spawn_at THEN Some(first_spawn_at)
             ELSE LET elapsed == n - first_spawn_at
                  IN  IF elapsed < Minutes(GraceMinutes)
                      THEN Some(first_spawn_at)
                      ELSE LET k == CeilDiv(elapsed, Minutes(rm))
                           IN  Some(first_spawn_at + Minutes(k * rm))

\* after a kill the result is never before `now`
next_spawn_at_kill_not_before_now(lk, sr, fsm, rm, nw) ==
    IF rm <= 0 THEN None
    ELSE LET n == IF nw = None THEN now_moscow ELSE Val(nw) IN
         IF lk # None
         THEN Some(IF Val(lk) + Minutes(rm) < n THEN n ELSE Val(lk) + Minutes(rm))
         ELSE IF sr = None THEN None
         ELSE LET first_spawn_at ==
                      IF fsm # None THEN Val(sr) + Minutes(Val(fsm)) ELSE Val(sr)
              IN  IF n <= first_spawn_at THEN Some(first_spawn_at)
                  ELSE LET elapsed == n - first_spawn_at
                       IN  IF elapsed <= Minutes(GraceMinutes)
                           THEN Some(first_spawn_at)
                           ELSE LET k == CeilDiv(elapsed, Minutes(rm))
                                IN  Some(first_spawn_at + Minutes(k * rm))

(***************************************************************************)
(* next_spawn_at (app/services.py).                                        *)
(***************************************************************************)
next_spawn_at(lk, sr, fsm, rm, nw) ==
    IF rm <= 0 THEN None
    ELSE IF lk # None THEN Some(Val(lk) + Minutes(rm))
    ELSE IF sr = None THEN None
    ELSE LET first_spawn_at ==
                 IF fsm # None THEN Val(sr) + Minutes(Val(fsm)) ELSE Val(sr)
             n == IF nw = None THEN now_moscow ELSE Val(nw)
         IN  IF n <= first_spawn_at THEN Some(first_spawn_at)
             ELSE LET elapsed == n - first_spawn_at   \* in seconds
                  IN  IF elapsed <= Minutes(GraceMinutes)
                      THEN Some(first_spawn_at)
                      ELSE LET k == CeilDiv(elapsed, Minutes(rm))
                           IN  Some(first_spawn_at + Minutes(k * rm))

(***************************************************************************)
(* The bot (bot.py).  Update handlers run one at a time (the Application   *)
(* is built without concurrent_updates); the tick job runs in the same     *)
(* event loop and is suspended at every `await send_message`, where        *)
(* handlers and the clock may go on.                                       *)
(***************************************************************************)
\* the first instant of a run: 04.02.2026 12:00:00
StartInstant == HMS(12, 0, 0)

\* the clock advances in steps of half a minute
ClockStep == SecondsPerMinute \div 2

\* number of clock steps of a run
MaxClockSteps == 2

\* number of commands and button presses of a run that change the database
MaxCommands == 1

ChatIds == {101, 102}

\* boss names are unique, so the table holds at most one row per name
BossNames == {"a", "b"}

\* parse_duration of the <респ> argument: None for text without a digit
RespawnArgs == {None, Some(0), Some(1)}

\* parse_duration of the optional [первое] argument
FirstArgs == {None, Some(0)}

\* the arguments of /notifications
NotificationArgs == {<<1, 2, 1>>}

\* ServerState.notification_intervals default "15,5,1" and the fallback list
DefaultIntervals == <<15, 5, 1>>

\* first_spawn_minutes <= 5 in cmd_restart
FastFirstMinutes == 5

\* _naive_tz / _aware_tz: both sides use one fixed-offset zone (UTC+3), so the
\* naive wall-clock value stored in the database and the aware value read back
\* denote the same instant of the model's time line
naive_tz(dt) == dt

aware_tz(dt) == dt

SetMax(S) == CHOOSE x \in S : \A y \in S : y <= x

SetMin(S) == CHOOSE x \in S : \A y \in S : x <= y

RECURSIVE Ascending(_)
\* the elements of a finite set of integers in ascending order
Ascending(S) ==
    IF S = {} THEN <<>> ELSE <<SetMin(S)>> \o Ascending(S \ {SetMin(S)})

RECURSIVE InsertDesc(_, _)
InsertDesc(x, q) ==
    IF q = <<>> THEN <<x>>
    ELSE IF x >= Head(q) THEN <<x>> \o q
    ELSE <<Head(q)>> \o InsertDesc(x, Tail(q))

RECURSIVE SortedDesc(_)
\* sorted(xs, reverse=True)
SortedDesc(q) ==
    IF q = <<>> THEN <<>> ELSE InsertDesc(Head(q), SortedDesc(Tail(q)))

\* state_row is None while server_state has no row with id = 1
get_server_restart ==
    IF state_row # None /\ Val(state_row).server_restart_at # None
    THEN Some(aware_tz(Val(Val(state_row).server_restart_at)))
    ELSE None

set_server_restart(at) ==
    IF state_row = None
    THEN Some([server_restart_at |-> Some(naive_tz(at)),
               notification_intervals |-> DefaultIntervals])
    ELSE Some([Val(state_row) EXCEPT !.server_restart_at = Some(naive_tz(at))])

\* the list is returned in the stored order
get_notification_intervals_unsorted ==
    IF state_row = None \/ Val(state_row).notification_intervals = <<>>
    THEN DefaultIntervals
    ELSE Val(state_row).notification_intervals

\* the list is sorted without reverse=True: ascending
get_notification_intervals_ascending ==
    IF state_row = None \/ Val(state_row).notification_intervals = <<>>
    THEN DefaultIntervals
    ELSE LET q == SortedDesc(Val(state_row).notification_intervals)
         IN  [n \in 1..Len(q) |-> q[Len(q) + 1 - n]]

\* the stored text is the list joined by commas; reading it back gives the
\* same integers, sorted descending (duplicates kept)
get_notification_intervals ==
    IF state_row = None \/ Val(state_row).notification_intervals = <<>>
    THEN DefaultIntervals
    ELSE SortedDesc(Val(state_row).notification_intervals)

set_notification_intervals(intervals) ==
    IF state_row = None
    THEN Some([server_restart_at |-> None, notification_intervals |-> intervals])
    ELSE Some([Val(state_row) EXCEPT !.notification_intervals = intervals])

\* the occurrence after a kill is caught up to `now` like the first occurrence
\* after a restart
boss_next_spawn_advances(boss, restart) ==
    next_spawn_at_kill_catchup(IF boss.last_kill_at = None THEN None
                               ELSE Some(aware_tz(Val(boss.last_kill_at))),
                               restart, boss.first_spawn_minutes,
                               boss.respawn_minutes, None)

boss_next_spawn(boss, restart) ==
    next_spawn_at(IF boss.last_kill_at = None THEN None
                  ELSE Some(aware_tz(Val(boss.last_kill_at))),
                  restart, boss.first_spawn_minutes, boss.respawn_minutes, None)

\* datetime.max: the last instant a datetime holds. It is 31.12.9999, far
\* beyond the integers the checker computes with, so the calendar of the model
\* ends one year after its first day; RespawnTooLong stands for an interval
\* such as 3000000d that leads past the end of the calendar.
DatetimeMax == HMS(24 * 365, 0, 0)

RespawnTooLong == 2 * 365 * 24 * 60

\* the date arithmetic of next_spawn_at raises OverflowError ("date value out
\* of range") when an instant it computes lies after datetime.max; the
\* instants it computes never exceed the one it would return
boss_next_spawn_raises(boss, restart) ==
    LET nxt == boss_next_spawn(boss, restart)
    IN  nxt # None /\ Val(nxt) > DatetimeMax

\* the key keeps the seconds ("%Y-%m-%d %H:%M:%S")
spawn_key_with_seconds(nt) ==
    <<nt \div HMS(24, 0, 0), (nt % HMS(24, 0, 0)) \div HMS(1, 0, 0),
      (nt % HMS(1, 0, 0)) \div SecondsPerMinute, nt % SecondsPerMinute>>

\* strftime("%Y-%m-%d %H:%M"): the date (as the day number), the hour and
\* the minute of the instant; the seconds are not part of the text
spawn_key(nt) ==
    <<nt \div HMS(24, 0, 0), (nt % HMS(24, 0, 0)) \div HMS(1, 0, 0),
      (nt % HMS(1, 0, 0)) \div SecondsPerMinute>>

\* db.query(Boss).filter(Boss.is_active).all(), in rowid order
ActiveBosses ==
    LET ids == Ascending({id \in DOMAIN bosses : bosses[id].is_active})
    IN  [n \in 1..Len(ids) |->
            [id |-> ids[n],
             first_spawn_minutes |-> bosses[ids[n]].first_spawn_minutes,
             respawn_minutes |-> bosses[ids[n]].respawn_minutes,
             last_kill_at |-> bosses[ids[n]].last_kill_at]]

\* the membership test is skipped
ledger_missing_always(sent, notification_key) == TRUE

\* `notification_key not in _sent_notifications`
ledger_missing(sent, notification_key) == notification_key \notin sent

\* the entry is not recorded
ledger_add_forgets(sent, notification_key) == sent

\* `_sent_notifications.add(notification_key)`
ledger_add(sent, notification_key) == sent \cup {notification_key}

\* history record of one dispatched alert: the boss, the occurrence instant
\* the alert is about, the lead time (0: the appearance alert) and the `now`
\* of the tick that dispatched it
Alert(boss, nxt, lead, at) ==
    [boss_id |-> boss.id, nxt |-> nxt, lead |-> lead, at |-> at]

TickIdle ==
    [pc |-> "idle", restart |-> None, bosses |-> <<>>, intervals |-> <<>>,
     now |-> 0, i |-> 0, j |-> 0, nxt |-> 0, chats |-> <<>>]

\* the appearance branch is marked by j = -1
AppearedBranch == -1

\* the skip is missing
occurrence_passed_never(delta) == FALSE

\* `if delta_m <= -1: continue`
occurrence_passed(delta) == delta <= - Minutes(1)

\* the appearance window is only the instant itself
appeared_exact(delta) == delta = 0

\* `if -1 < delta_m <= 1`
appeared(delta) == - Minutes(1) < delta /\ delta <= Minutes(1)

\* the lower end of the window is not tested
in_lead_window_no_lower_end(interval, delta) == delta <= Minutes(interval + 1)

\* `if (interval - 1) <= delta_m <= (interval + 1)`
in_lead_window(interval, delta) ==
    Minutes(interval - 1) <= delta /\ delta <= Minutes(interval + 1)

\* the histories with one more dispatched alert
Fire(log, alert) == [log EXCEPT !.fired = Append(@, alert)]

\* the histories with one more check that found its key in the ledger
Found(log, alert) == [log EXCEPT !.found = @ \cup {alert}]

\* the histories with one more evaluation that raised
Raised(log, boss, at) ==
    [log EXCEPT !.raised = @ \cup {[boss_id |-> boss.id, at |-> at]}]

RECURSIVE RunTick(_, _, _, _)
\* The loop of tick_notifications from boss t.i, lead index t.j (0: the boss
\* is not yet evaluated) up to the next `await send_message`, the end or an
\* exception. Gives the locals, the ledger and the histories at that point.
RunTick(t, sent, log, subs) ==
    IF t.i > Len(t.bosses)
    THEN [t |-> TickIdle, sent |-> sent, log |-> log]
    ELSE
    LET boss == t.bosses[t.i]
        NextBoss == [t EXCEPT !.i = @ + 1, !.j = 0, !.nxt = 0]
        chats == Ascending(subs)
    IN
    IF t.j = 0 THEN
        \* no except clause encloses the evaluation of a boss: the exception
        \* leaves the loop and the job (the finally clause closes the session)
        IF boss_next_spawn_raises(boss, t.restart)
        THEN [t |-> TickIdle, sent |-> sent, log |-> Raised(log, boss, t.now)]
        ELSE
        LET nxt == boss_next_spawn(boss, t.restart) IN
        IF nxt = None THEN RunTick(NextBoss, sent, log, subs)
        ELSE
        LET key_base == spawn_key(Val(nxt))
            delta == Val(nxt) - t.now
            notification_key == <<boss.id, key_base, 0>>
            alert == Alert(boss, Val(nxt), 0, t.now)
        IN
        IF occurrence_passed(delta) THEN RunTick(NextBoss, sent, log, subs)
        ELSE IF appeared(delta) THEN
            IF ledger_missing(sent, notification_key) THEN
                IF chats = <<>>
                THEN RunTick(NextBoss, ledger_add(sent, notification_key),
                             Fire(log, alert), subs)
                ELSE [t |-> [t EXCEPT !.pc = "send", !.j = AppearedBranch,
                                      !.nxt = Val(nxt), !.chats = chats],
                      sent |-> ledger_add(sent, notification_key),
                      log |-> Fire(log, alert)]
            ELSE RunTick(NextBoss, sent, Found(log, alert), subs)
        ELSE RunTick([t EXCEPT !.j = 1, !.nxt = Val(nxt)], sent, log, subs)
    ELSE IF t.j = AppearedBranch \/ t.j > Len(t.intervals)
    THEN RunTick(NextBoss, sent, log, subs)
    ELSE
        LET interval == t.intervals[t.j]
            delta == t.nxt - t.now
            notification_key == <<boss.id, spawn_key(t.nxt), interval>>
            alert == Alert(boss, t.nxt, interval, t.now)
            Later == [t EXCEPT !.j = @ + 1]
        IN
        IF in_lead_window(interval, delta)
        THEN
            IF ledger_missing(sent, notification_key) THEN
                IF chats = <<>>
                THEN RunTick(Later, ledger_add(sent, notification_key),
                             Fire(log, alert), subs)
                ELSE [t |-> [t EXCEPT !.pc = "send", !.chats = chats],
                      sent |-> ledger_add(sent, notification_key),
                      log |-> Fire(log, alert)]
            ELSE RunTick(Later, sent, Found(log, alert), subs)
        ELSE RunTick(Later, sent, log, subs)

\* after the sends of an appearance alert the lead times are evaluated too
AfterSends_falls_through(t) ==
    [t EXCEPT !.pc = "run", !.chats = <<>>,
              !.j = IF @ = AppearedBranch THEN 1 ELSE @ + 1]

\* what the tick does after the sends of one alert: the next boss after an
\* appearance alert, the next lead time after a lead-time alert
AfterSends(t) ==
    IF t.j = AppearedBranch
    THEN [t EXCEPT !.pc = "run", !.chats = <<>>]
    ELSE [t EXCEPT !.pc = "run", !.chats = <<>>, !.j = @ + 1]

\* a row of table bosses
Boss(name, first, respawn, active, killed) ==
    [name |-> name, first_spawn_minutes |-> first, respawn_minutes |-> respawn,
     is_active |-> active, last_kill_at |-> killed]

\* The database when the process starts; the tables outlive the process, so
\* it may be fresh or carry what earlier runs stored:
\*   - one boss, nothing recorded;
\*   - an active boss with a short first spawn and an inactive boss, both
\*     with a recorded kill (one long past, one at a future instant);
\*   - one boss and a restart anchor at the start instant;
\*   - one boss and lead times stored by /notifications (any integers).
StoredDatabases ==
    { [bosses |-> (1 :> Boss("a", None, 2, TRUE, None)),
       state_row |-> None, kill_log |-> <<>>],
      [bosses |-> (1 :> Boss("a", Some(1), 1, TRUE,
                             Some(StartInstant - Minutes(10))))
                  @@ (2 :> Boss("b", None, 2, FALSE,
                                Some(StartInstant + Minutes(10)))),
       state_row |-> None,
       kill_log |-> <<[boss_id |-> 1, killed_at |-> StartInstant - Minutes(10)],
                      [boss_id |-> 2, killed_at |-> StartInstant + Minutes(10)]>>],
      [bosses |-> (1 :> Boss("a", None, 2, TRUE, None)),
       state_row |-> Some([server_restart_at |-> Some(StartInstant),
                           notification_intervals |-> DefaultIntervals]),
       kill_log |-> <<>>],
      [bosses |-> (1 :> Boss("a", None, 2, TRUE, None)),
       state_row |-> Some([server_restart_at |-> None,
                           notification_intervals |-> <<1, 2, 1, -1>>]),
       kill_log |-> <<>>] }

BotInit ==
    /\ \E db \in StoredDatabases :
          /\ bosses = db.bosses
          /\ state_row = db.state_row
          /\ kill_log = db.kill_log
    /\ subscribers = {}
    /\ sent_notifications = {}
    /\ tick = TickIdle
    /\ handler = "idle"
    /\ budget = MaxCommands
    /\ dispatched = <<>>
    /\ suppressed = {}
    /\ faults = {}
    /\ overlap = TickIdle
    /\ deliveries = <<>>
    /\ contacted = {}
    /\ recycled = {}

CalcOff ==
    /\ last_kill_at = None
    /\ server_restart_at = None
    /\ first_spawn_minutes = None
    /\ respawn_minutes = 0
    /\ now = None
    /\ result = None
    /\ calc_pc = "off"

Init ==
    /\ clock = StartInstant
    /\ CalcOff
    /\ BotInit

\* time passes
Advance ==
    /\ clock < StartInstant + MaxClockSteps * ClockStep
    /\ clock' = clock + ClockStep
    /\ UNCHANGED <<calc_vars, bot_vars, job_vars>>

\* the locals of tick_notifications before its loop: the snapshot it reads
NewTick ==
    [pc |-> "run", restart |-> get_server_restart, bosses |-> ActiveBosses,
     intervals |-> get_notification_intervals, now |-> clock,
     i |-> 1, j |-> 0, nxt |-> 0, chats |-> <<>>]

\* the histories a tick extends
Histories == [fired |-> dispatched, found |-> suppressed, raised |-> faults]

\* the early return for an empty set of subscribers is missing
TickStart_without_subscribers ==
    /\ tick.pc = "idle"
    /\ LET r == RunTick(NewTick, sent_notifications, Histories, subscribers)
       IN  /\ tick' = r.t
           /\ sent_notifications' = r.sent
           /\ dispatched' = r.log.fired
           /\ suppressed' = r.log.found
           /\ faults' = r.log.raised
    /\ UNCHANGED <<clock, calc_vars, store_vars, subscribers, handler, budget,
                   job_vars>>

\* reading the server state creates the row with id = 1 when it is missing
TickStart_creates_state_row ==
    /\ tick.pc = "idle"
    /\ IF subscribers = {}
       THEN UNCHANGED <<tick, sent_notifications, dispatched, suppressed, faults,
                        state_row>>
       ELSE LET r == RunTick(NewTick, sent_notifications, Histories, subscribers)
            IN  /\ tick' = r.t
                /\ sent_notifications' = r.sent
                /\ dispatched' = r.log.fired
                /\ suppressed' = r.log.found
                /\ faults' = r.log.raised
                /\ state_row' =
                      IF state_row = None
                      THEN Some([server_restart_at |-> None,
                                 notification_intervals |-> DefaultIntervals])
                      ELSE state_row
    /\ UNCHANGED <<clock, calc_vars, bosses, kill_log, subscribers, handler,
                   budget, job_vars>>

\* the job queue starts tick_notifications (no second instance while one runs)
TickStart ==
    /\ tick.pc = "idle"
    /\ IF subscribers = {}
       THEN UNCHANGED <<tick, sent_notifications, dispatched, suppressed, faults>>
       ELSE LET r == RunTick(NewTick, sent_notifications, Histories, subscribers)
            IN  /\ tick' = r.t
                /\ sent_notifications' = r.sent
                /\ dispatched' = r.log.fired
                /\ suppressed' = r.log.found
                /\ faults' = r.log.raised
    /\ UNCHANGED <<clock, calc_vars, store_vars, subscribers, handler, budget,
                   job_vars>>

\* one `await context.bot.send_message` of the tick returns or raises
TickSend(ok) ==
    /\ tick.pc = "send"
    /\ LET chat_id == Head(tick.chats)
           subs == IF ok THEN subscribers ELSE subscribers \ {chat_id}
           rest == Tail(tick.chats)
       IN  /\ subscribers' = subs
           /\ IF rest # <<>>
              THEN /\ tick' = [tick EXCEPT !.chats = rest]
                   /\ UNCHANGED <<sent_notifications, dispatched, suppressed,
                                  faults>>
              ELSE LET r == RunTick(AfterSends(tick), sent_notifications,
                                    Histories, subs)
                   IN  /\ tick' = r.t
                       /\ sent_notifications' = r.sent
                       /\ dispatched' = r.log.fired
                       /\ suppressed' = r.log.found
                       /\ faults' = r.log.raised
    /\ UNCHANGED <<clock, calc_vars, store_vars, handler, budget, job_vars>>

\* the instants a /kill argument can denote: now, or a whole minute (the
\* minute before the current one, or 11:50)
KillTimeArgs ==
    {clock, Minutes(clock \div SecondsPerMinute) - Minutes(1),
     StartInstant - Minutes(10)}

\* the instants a /restart argument can denote: now, or a whole minute
RestartTimeArgs == {clock, StartInstant + Minutes(5)}

\* /list: the only handler that subscribes the chat
CmdList(chat_id) ==
    /\ handler = "idle"
    /\ subscribers' = subscribers \cup {chat_id}
    /\ UNCHANGED <<clock, calc_vars, store_vars, sent_notifications, tick,
                   handler, budget, dispatched, suppressed, faults,
                   job_vars>>

\* a kill of a boss that already holds this kill counts as the next one: the
\* stored instant moves on by the respawn interval
CmdKill_repeat_moves_on(admin, boss_id, killed_at) ==
    /\ handler = "idle"
    /\ budget > 0
    /\ IF admin /\ boss_id \in DOMAIN bosses
       THEN LET stored ==
                    IF bosses[boss_id].last_kill_at = Some(naive_tz(killed_at))
                    THEN naive_tz(killed_at) + Minutes(bosses[boss_id].respawn_minutes)
                    ELSE naive_tz(killed_at)
            IN  /\ bosses' = [bosses EXCEPT ![boss_id].last_kill_at = Some(stored)]
                /\ kill_log' = Append(kill_log, [boss_id |-> boss_id,
                                                 killed_at |-> naive_tz(killed_at)])
                /\ budget' = budget - 1
       ELSE UNCHANGED <<bosses, kill_log, budget>>
    /\ UNCHANGED <<clock, calc_vars, state_row, subscribers,
                   sent_notifications, tick, handler, dispatched, suppressed, faults,
                   job_vars>>

\* the kill is stored in every row of the table
CmdKill_every_row(admin, boss_id, killed_at) ==
    /\ handler = "idle"
    /\ budget > 0
    /\ IF admin /\ boss_id \in DOMAIN bosses
       THEN /\ bosses' = [id \in DOMAIN bosses |->
                             [bosses[id] EXCEPT
                                !.last_kill_at = Some(naive_tz(killed_at))]]
            /\ kill_log' = Append(kill_log, [boss_id |-> boss_id,
                                             killed_at |-> naive_tz(killed_at)])
            /\ budget' = budget - 1
       ELSE UNCHANGED <<bosses, kill_log, budget>>
    /\ UNCHANGED <<clock, calc_vars, state_row, subscribers,
                   sent_notifications, tick, handler, dispatched, suppressed, faults,
                   job_vars>>

\* /kill <ID> [time]
CmdKill(admin, boss_id, killed_at) ==
    /\ handler = "idle"
    /\ budget > 0
    /\ IF admin /\ boss_id \in DOMAIN bosses
       THEN /\ bosses' = [bosses EXCEPT
                            ![boss_id].last_kill_at = Some(naive_tz(killed_at))]
            /\ kill_log' = Append(kill_log, [boss_id |-> boss_id,
                                             killed_at |-> naive_tz(killed_at)])
            /\ budget' = budget - 1
       ELSE UNCHANGED <<bosses, kill_log, budget>>
    /\ UNCHANGED <<clock, calc_vars, state_row, subscribers,
                   sent_notifications, tick, handler, dispatched, suppressed, faults,
                   job_vars>>

\* the inline button "Босс убит" (kill_do_<id>), pressed by an admin or by
\* any other user: the handler does not call is_admin
CallbackKillDo(admin, boss_id) ==
    /\ handler = "idle"
    /\ budget > 0
    /\ IF boss_id \in DOMAIN bosses
       THEN /\ bosses' = [bosses EXCEPT
                            ![boss_id].last_kill_at = Some(naive_tz(clock))]
            /\ kill_log' = Append(kill_log, [boss_id |-> boss_id,
                                             killed_at |-> naive_tz(clock)])
            /\ budget' = budget - 1
       ELSE UNCHANGED <<bosses, kill_log, budget>>
    /\ UNCHANGED <<clock, calc_vars, state_row, subscribers,
                   sent_notifications, tick, handler, dispatched, suppressed, faults,
                   job_vars>>

\* the kills of the active bosses only are cleared
CmdRestart_active_only(admin, dt) ==
    /\ handler = "idle"
    /\ budget > 0
    /\ IF admin
       THEN LET fast_bosses ==
                    {id \in DOMAIN bosses :
                        /\ bosses[id].is_active
                        /\ bosses[id].first_spawn_minutes # None
                        /\ Val(bosses[id].first_spawn_minutes) <= FastFirstMinutes}
            IN  /\ state_row' = set_server_restart(dt)
                /\ bosses' = [id \in DOMAIN bosses |->
                                 IF bosses[id].is_active
                                 THEN [bosses[id] EXCEPT !.last_kill_at = None]
                                 ELSE bosses[id]]
                /\ handler' = IF fast_bosses # {} THEN "restart_notify" ELSE "idle"
                /\ budget' = budget - 1
       ELSE UNCHANGED <<state_row, bosses, handler, budget>>
    /\ UNCHANGED <<clock, calc_vars, kill_log, subscribers,
                   sent_notifications, tick, dispatched, suppressed, faults,
                   job_vars>>

\* the restart starts a new ledger
CmdRestart_clears_ledger(admin, dt) ==
    /\ handler = "idle"
    /\ budget > 0
    /\ IF admin
       THEN LET fast_bosses ==
                    {id \in DOMAIN bosses :
                        /\ bosses[id].is_active
                        /\ bosses[id].first_spawn_minutes # None
                        /\ Val(bosses[id].first_spawn_minutes) <= FastFirstMinutes}
            IN  /\ state_row' = set_server_restart(dt)
                /\ bosses' = [id \in DOMAIN bosses |->
                                 [bosses[id] EXCEPT !.last_kill_at = None]]
                /\ sent_notifications' = {}
                /\ handler' = IF fast_bosses # {} THEN "restart_notify" ELSE "idle"
                /\ budget' = budget - 1
       ELSE UNCHANGED <<state_row, bosses, sent_notifications, handler, budget>>
    /\ UNCHANGED <<clock, calc_vars, kill_log, subscribers,
                   tick, dispatched, suppressed, faults,
                   job_vars>>

\* /restart [time]: up to the reply; the alerts for bosses with a short first
\* spawn are sent after it (RestartNotify)
CmdRestart(admin, dt) ==
    /\ handler = "idle"
    /\ budget > 0
    /\ IF admin
       THEN LET fast_bosses ==
                    {id \in DOMAIN bosses :
                        /\ bosses[id].is_active
                        /\ bosses[id].first_spawn_minutes # None
                        /\ Val(bosses[id].first_spawn_minutes) <= FastFirstMinutes}
            IN  /\ state_row' = set_server_restart(dt)
                /\ bosses' = [id \in DOMAIN bosses |->
                                 [bosses[id] EXCEPT !.last_kill_at = None]]
                /\ handler' = IF fast_bosses # {} THEN "restart_notify" ELSE "idle"
                /\ budget' = budget - 1
       ELSE UNCHANGED <<state_row, bosses, handler, budget>>
    /\ UNCHANGED <<clock, calc_vars, kill_log, subscribers,
                   sent_notifications, tick, dispatched, suppressed, faults,
                   job_vars>>

\* the sends of cmd_restart to the subscribers: a chat whose send raises is
\* discarded; these alerts do not pass through the ledger
RestartNotify(failed) ==
    /\ handler = "restart_notify"
    /\ failed \subseteq subscribers
    /\ subscribers' = subscribers \ failed
    /\ handler' = "idle"
    /\ UNCHANGED <<clock, calc_vars, store_vars, sent_notifications, tick,
                   budget, dispatched, suppressed, faults,
                   job_vars>>

\* /boss_add <name> <chance%> <resp> [first]; the table declares
\* `id INTEGER PRIMARY KEY` without AUTOINCREMENT, so SQLite gives the new row
\* the largest id in the table plus one: the id of a deleted last row again
CmdBossAdd(admin, name, respawn_min, first_min) ==
    /\ handler = "idle"
    /\ budget > 0
    /\ IF /\ admin
          /\ respawn_min # None
          /\ Val(respawn_min) > 0
          /\ \A id \in DOMAIN bosses : bosses[id].name # name
       THEN LET new_id == IF DOMAIN bosses = {} THEN 1
                          ELSE SetMax(DOMAIN bosses) + 1
                first == IF first_min = Some(0) THEN Some(1) ELSE first_min
            IN  /\ bosses' = bosses @@
                      (new_id :> [name |-> name,
                                  first_spawn_minutes |-> first,
                                  respawn_minutes |-> Val(respawn_min),
                                  is_active |-> TRUE,
                                  last_kill_at |-> None])
                /\ recycled' = recycled \cup
                      {k \in sent_notifications : k[1] = new_id}
                /\ budget' = budget - 1
       ELSE UNCHANGED <<bosses, budget, recycled>>
    /\ UNCHANGED <<clock, calc_vars, state_row, kill_log, subscribers,
                   sent_notifications, tick, handler, dispatched, suppressed, faults,
                   overlap, deliveries, contacted>>

RECURSIVE WithoutBoss(_, _)
\* the records of a log that are not about boss_id
WithoutBoss(log, boss_id) ==
    IF log = <<>> THEN <<>>
    ELSE IF Head(log).boss_id = boss_id THEN WithoutBoss(Tail(log), boss_id)
    ELSE <<Head(log)>> \o WithoutBoss(Tail(log), boss_id)

\* the kill records of the deleted boss are deleted with it
CmdBossDel_purges_log(admin, boss_id) ==
    /\ handler = "idle"
    /\ budget > 0
    /\ IF admin /\ boss_id \in DOMAIN bosses
       THEN /\ bosses' = [id \in DOMAIN bosses \ {boss_id} |-> bosses[id]]
            /\ kill_log' = WithoutBoss(kill_log, boss_id)
            /\ budget' = budget - 1
       ELSE UNCHANGED <<bosses, kill_log, budget>>
    /\ UNCHANGED <<clock, calc_vars, state_row, subscribers,
                   sent_notifications, tick, handler, dispatched, suppressed, faults,
                   job_vars>>

\* /boss_del <id>
CmdBossDel(admin, boss_id) ==
    /\ handler = "idle"
    /\ budget > 0
    /\ IF admin /\ boss_id \in DOMAIN bosses
       THEN /\ bosses' = [id \in DOMAIN bosses \ {boss_id} |-> bosses[id]]
            /\ budget' = budget - 1
       ELSE UNCHANGED <<bosses, budget>>
    /\ UNCHANGED <<clock, calc_vars, state_row, kill_log, subscribers,
                   sent_notifications, tick, handler, dispatched, suppressed, faults,
                   job_vars>>

\* the guard of the interval is `< 0`: an interval of 0 is stored
CmdBossEdit_zero_interval(admin, boss_id, name, respawn_min, first_min) ==
    /\ handler = "idle"
    /\ budget > 0
    /\ IF /\ admin
          /\ respawn_min # None
          /\ Val(respawn_min) >= 0
          /\ boss_id \in DOMAIN bosses
          /\ \A id \in DOMAIN bosses \ {boss_id} : bosses[id].name # name
       THEN LET first == IF first_min = Some(0) THEN Some(1) ELSE first_min
            IN  /\ bosses' = [bosses EXCEPT
                                ![boss_id].name = name,
                                ![boss_id].respawn_minutes = Val(respawn_min),
                                ![boss_id].first_spawn_minutes = first]
                /\ budget' = budget - 1
       ELSE UNCHANGED <<bosses, budget>>
    /\ UNCHANGED <<clock, calc_vars, state_row, kill_log, subscribers,
                   sent_notifications, tick, handler, dispatched, suppressed, faults,
                   job_vars>>

\* /boss_edit <id> <name> <chance%> <resp> [first]; a name another row holds
\* fails the commit (name is unique) and nothing is stored
CmdBossEdit(admin, boss_id, name, respawn_min, first_min) ==
    /\ handler = "idle"
    /\ budget > 0
    /\ IF /\ admin
          /\ respawn_min # None
          /\ Val(respawn_min) > 0
          /\ boss_id \in DOMAIN bosses
          /\ \A id \in DOMAIN bosses \ {boss_id} : bosses[id].name # name
       THEN LET first == IF first_min = Some(0) THEN Some(1) ELSE first_min
            IN  /\ bosses' = [bosses EXCEPT
                                ![boss_id].name = name,
                                ![boss_id].respawn_minutes = Val(respawn_min),
                                ![boss_id].first_spawn_minutes = first]
                /\ budget' = budget - 1
       ELSE UNCHANGED <<bosses, budget>>
    /\ UNCHANGED <<clock, calc_vars, state_row, kill_log, subscribers,
                   sent_notifications, tick, handler, dispatched, suppressed, faults,
                   job_vars>>

\* /notifications <minutes ...>
CmdNotifications(admin, intervals) ==
    /\ handler = "idle"
    /\ budget > 0
    /\ IF admin
       THEN /\ state_row' = set_notification_intervals(intervals)
            /\ budget' = budget - 1
       ELSE UNCHANGED <<state_row, budget>>
    /\ UNCHANGED <<clock, calc_vars, bosses, kill_log, subscribers,
                   sent_notifications, tick, handler, dispatched, suppressed, faults,
                   job_vars>>

\* ids a command may name: the rows of the table and one id that is no row
BossIdArgs == DOMAIN bosses \cup {0}

\* A handler that tests is_admin returns before it reads its arguments when
\* the user is no admin, so one argument tuple per row stands for all of them.
KillArgs(admin) ==
    IF admin THEN BossIdArgs \X KillTimeArgs ELSE (DOMAIN bosses) \X {clock}

RestartArgs(admin) == IF admin THEN RestartTimeArgs ELSE {clock}

BossAddArgs(admin) ==
    IF admin THEN BossNames \X RespawnArgs \X FirstArgs
    ELSE {<<"b", Some(1), None>>}

BossDelArgs(admin) == IF admin THEN BossIdArgs ELSE DOMAIN bosses

\* /boss_edit always proposes the name "a": a rename for another row, and a
\* rejected duplicate while a row named "a" exists
BossEditArgs(admin) ==
    IF admin THEN BossIdArgs \X {"a"} \X RespawnArgs \X FirstArgs
    ELSE (DOMAIN bosses) \X {"a"} \X {Some(1)} \X {None}

Next ==
    \/ Advance
    \/ TickStart
    \/ \E ok \in BOOLEAN : TickSend(ok)
    \/ \E chat_id \in ChatIds : CmdList(chat_id)
    \/ \E admin \in BOOLEAN : \E a \in KillArgs(admin) : CmdKill(admin, a[1], a[2])
    \/ \E admin \in BOOLEAN : \E boss_id \in BossIdArgs :
          CallbackKillDo(admin, boss_id)
    \/ \E admin \in BOOLEAN : \E dt \in RestartArgs(admin) : CmdRestart(admin, dt)
    \/ \E failed \in SUBSET ChatIds : RestartNotify(failed)
    \/ \E admin \in BOOLEAN : \E a \in BossAddArgs(admin) :
          CmdBossAdd(admin, a[1], a[2], a[3])
    \/ \E admin \in BOOLEAN : \E boss_id \in BossDelArgs(admin) :
          CmdBossDel(admin, boss_id)
    \/ \E admin \in BOOLEAN : \E a \in BossEditArgs(admin) :
          CmdBossEdit(admin, a[1], a[2], a[3], a[4])
    \/ \E admin \in BOOLEAN, intervals \in NotificationArgs :
          CmdNotifications(admin, intervals)

Spec == Init /\ [][Next]_vars

(***************************************************************************)
(* Claims about the tick and the ledger, checked under Spec.               *)
(***************************************************************************)
\* the calendar minute an occurrence instant falls in
OccurrenceMinute(instant) == instant \div SecondsPerMinute

SameTriple(a, b) ==
    /\ a.boss_id = b.boss_id
    /\ OccurrenceMinute(a.nxt) = OccurrenceMinute(b.nxt)
    /\ a.lead = b.lead

\* C1: over any sequence of ticks, kills, restarts, /list, notification and
\* boss add/edit/delete commands, no (entity, occurrence minute, lead) triple
\* is dispatched more than once.
C1_TripleDispatchedAtMostOnce ==
    \A m, n \in 1..Len(dispatched) :
        m < n => ~ SameTriple(dispatched[m], dispatched[n])

\* An appearance alert was dispatched by one tick, and a later tick found the
\* same boss due for the same occurrence minute and did not dispatch it again.
C1_Witness ==
    \E m \in 1..Len(dispatched) : \E s \in suppressed :
        /\ dispatched[m].lead = 0
        /\ SameTriple(dispatched[m], s)
        /\ dispatched[m].at < s.at
        /\ \A n \in 1..Len(dispatched) :
              SameTriple(dispatched[n], s) => n = m

\* the ledger key of a dispatched alert
AlertKey(a) == <<a.boss_id, spawn_key(a.nxt), a.lead>>

\* the alerts a step appends to the dispatch history
NewAlertIndices == (Len(dispatched) + 1)..Len(dispatched')

\* C12: a check of a triple (entity, occurrence minute, lead) that finds it
\* absent fires and records it; a check that finds it present does not fire,
\* and a recorded triple stays recorded. Step by step: every alert a step
\* dispatches has a key that was absent before the step and is present after
\* it, every key a step records belongs to an alert dispatched in that step,
\* and no step removes a key.
C12_CheckAndRecord ==
    [][ /\ sent_notifications \subseteq sent_notifications'
        /\ \A n \in NewAlertIndices :
              /\ AlertKey(dispatched'[n]) \notin sent_notifications
              /\ AlertKey(dispatched'[n]) \in sent_notifications'
        /\ \A k \in sent_notifications' \ sent_notifications :
              \E n \in NewAlertIndices : AlertKey(dispatched'[n]) = k
      ]_vars

\* The first check of a lead-time triple fired and recorded it; the check of
\* the same triple by a later tick, still inside the lead window, found it
\* present.
C12_Witness ==
    \E m \in 1..Len(dispatched) : \E s \in suppressed :
        /\ dispatched[m].lead > 0
        /\ AlertKey(s) = AlertKey(dispatched[m])
        /\ s.nxt = dispatched[m].nxt
        /\ dispatched[m].at < s.at
        /\ AlertKey(s) \in sent_notifications

\* every alert a tick checked against the ledger: dispatched or found present
CheckedAlerts == {dispatched[n] : n \in 1..Len(dispatched)} \cup suppressed

\* C13: the ledger key discards the seconds and nothing else. Two checked
\* occurrences have the same key exactly when they fall in the same calendar
\* minute; no two dispatched alerts of one entity and lead are about
\* occurrences of the same minute that differ in their seconds; and a check
\* found present goes back to a dispatched alert of the same entity, lead and
\* minute.
C13_KeyDiscardsSeconds ==
    /\ \A a, b \in CheckedAlerts :
          (spawn_key(a.nxt) = spawn_key(b.nxt))
              <=> (OccurrenceMinute(a.nxt) = OccurrenceMinute(b.nxt))
    /\ \A m, n \in 1..Len(dispatched) :
          (/\ dispatched[m].boss_id = dispatched[n].boss_id
           /\ dispatched[m].lead = dispatched[n].lead
           /\ OccurrenceMinute(dispatched[m].nxt) = OccurrenceMinute(dispatched[n].nxt))
              => dispatched[m].nxt = dispatched[n].nxt
    /\ \A s \in suppressed :
          \E m \in 1..Len(dispatched) : SameTriple(dispatched[m], s)

\* an alert fired for an occurrence; the occurrence was then recomputed with
\* other seconds inside the same minute, and the check for it was suppressed
C13_Witness ==
    \E m \in 1..Len(dispatched) : \E s \in suppressed :
        /\ SameTriple(dispatched[m], s)
        /\ s.nxt # dispatched[m].nxt
        /\ dispatched[m].at < s.at

\* C14: a tick dispatches nothing and records nothing for an entity whose
\* occurrence lies a minute or more before the tick's now, nor for an entity
\* without an occurrence: every dispatched alert is about an occurrence less
\* than a minute before the now of its tick, and every ledger entry belongs
\* to a dispatched alert.
C14_PassedOccurrenceSkipped ==
    /\ \A n \in 1..Len(dispatched) :
          dispatched[n].nxt - dispatched[n].at > - Minutes(1)
    /\ \A k \in sent_notifications :
          \E n \in 1..Len(dispatched) :
              /\ AlertKey(dispatched[n]) = k
              /\ dispatched[n].nxt - dispatched[n].at > - Minutes(1)

\* The tick has evaluated its first boss, whose occurrence is a minute or more
\* past, and is suspended in the sends for its second boss: no alert and no
\* ledger entry exists for the first boss.
C14_Witness ==
    /\ tick.pc = "send"
    /\ tick.i = 2
    /\ clock = tick.now
    /\ LET nxt == boss_next_spawn(tick.bosses[1], tick.restart)
       IN  /\ nxt # None
           /\ Val(nxt) - tick.now <= - Minutes(1)
    /\ \A n \in 1..Len(dispatched) : dispatched[n].boss_id # tick.bosses[1].id
    /\ \A k \in sent_notifications : k[1] # tick.bosses[1].id

\* the step is the start of a tick that dispatched an alert, found a key
\* present or was suspended (only a tick writes these variables)
TickStarted ==
    /\ tick.pc = "idle"
    /\ \/ tick' # tick
       \/ dispatched' # dispatched
       \/ suppressed' # suppressed

\* occurrence - now of a checked alert, in seconds
DeltaOf(a) == a.nxt - a.at

\* the alerts of one boss a step appends to the dispatch history
NewAlertsOf(boss_id) ==
    {n \in NewAlertIndices : dispatched'[n].boss_id = boss_id}

\* C15: in a tick with a subscriber, an entity with -1 < deltaMinutes <= 1
\* gets the appearance alert (lead 0) exactly when its key is not yet in the
\* ledger, and no lead-time alert is evaluated for it in that tick. For the
\* first boss of a starting tick: key absent, then the one alert the step
\* dispatches is its appearance alert; key present, then the step dispatches
\* nothing for it and the check is found present. For every check ever made:
\* one inside the appearance window is a lead-0 check, and a lead-0 check is
\* inside the appearance window.
C15_AppearedIffNotInLedger ==
    /\ [][ (TickStarted /\ subscribers # {} /\ ActiveBosses # <<>>) =>
             LET boss == ActiveBosses[1]
                 nxt == boss_next_spawn(boss, get_server_restart)
             IN  (/\ nxt # None
                  /\ - SecondsPerMinute < Val(nxt) - clock
                  /\ Val(nxt) - clock <= SecondsPerMinute) =>
                   LET a == Alert(boss, Val(nxt), 0, clock)
                   IN  IF AlertKey(a) \notin sent_notifications
                       THEN /\ dispatched' = Append(dispatched, a)
                            /\ AlertKey(a) \in sent_notifications'
                       ELSE /\ NewAlertsOf(boss.id) = {}
                            /\ a \in suppressed'
         ]_vars
    /\ [](\A a \in CheckedAlerts :
             (- SecondsPerMinute < DeltaOf(a) /\ DeltaOf(a) <= SecondsPerMinute)
                 <=> a.lead = 0)

\* an appearance alert was dispatched at a delta that the window of the
\* configured lead time 1 contains as well ([0, 2] minutes); no lead-time
\* check was made for that occurrence
C15_Witness ==
    \E m \in 1..Len(dispatched) :
        /\ dispatched[m].lead = 0
        /\ DeltaOf(dispatched[m]) >= 0
        /\ \E n \in 1..Len(get_notification_intervals) :
              get_notification_intervals[n] = 1
        /\ \A a \in CheckedAlerts :
              (a.boss_id = dispatched[m].boss_id /\ a.nxt = dispatched[m].nxt)
                  => a.lead = 0
        /\ <<dispatched[m].boss_id, spawn_key(dispatched[m].nxt), 1>>
              \notin sent_notifications

\* the lead times of `intervals` whose window contains delta and whose key
\* for the occurrence is not in the ledger
EligibleLeads(boss, nxt, intervals, delta, sent) ==
    {intervals[n] : n \in
        {n \in 1..Len(intervals) :
            /\ (intervals[n] - 1) * SecondsPerMinute <= delta
            /\ delta <= (intervals[n] + 1) * SecondsPerMinute
            /\ <<boss.id, spawn_key(nxt), intervals[n]>> \notin sent}}

\* C16: in a tick with a subscriber, for an entity with deltaMinutes > 1 the
\* "L minutes" alert is dispatched exactly when L - 1 <= deltaMinutes <= L + 1
\* and the key is not in the ledger, the lead times being taken in descending
\* order. For the first boss of a starting tick: the step dispatches the
\* alert of the largest eligible lead time (the tick is then suspended in its
\* sends), or nothing for the boss when no lead time is eligible. When the
\* tick goes on after the sends of a lead-time alert, what it dispatches next
\* for that boss has a lead time no larger, inside its window, with a key
\* absent before. Every lead-time check ever made lies inside its window and
\* more than a minute ahead.
C16_LeadAlertIffWindowAndNotInLedger ==
    /\ [][ (TickStarted /\ subscribers # {} /\ ActiveBosses # <<>>) =>
             LET boss == ActiveBosses[1]
                 nxt == boss_next_spawn(boss, get_server_restart)
             IN  (nxt # None /\ Val(nxt) - clock > SecondsPerMinute) =>
                   LET E == EligibleLeads(boss, Val(nxt),
                                          get_notification_intervals,
                                          Val(nxt) - clock, sent_notifications)
                   IN  IF E # {}
                       THEN dispatched' =
                              Append(dispatched,
                                     Alert(boss, Val(nxt), SetMax(E), clock))
                       ELSE NewAlertsOf(boss.id) = {}
         ]_vars
    /\ [][ (tick.pc = "send" /\ tick.j >= 1) =>
             \A n \in NewAlertsOf(tick.bosses[tick.i].id) :
                 /\ dispatched'[n].lead <= tick.intervals[tick.j]
                 /\ dispatched'[n].lead \in
                       EligibleLeads(tick.bosses[tick.i], tick.nxt,
                                     tick.intervals, tick.nxt - tick.now,
                                     sent_notifications)
         ]_vars
    /\ [](\A a \in CheckedAlerts :
             a.lead # 0 =>
                 /\ DeltaOf(a) > SecondsPerMinute
                 /\ (a.lead - 1) * SecondsPerMinute <= DeltaOf(a)
                 /\ DeltaOf(a) <= (a.lead + 1) * SecondsPerMinute)

\* one tick dispatched two lead-time alerts for one occurrence (the windows of
\* the stored lead times 2 and 1 overlap), the larger lead time first
C16_Witness ==
    \E m, n \in 1..Len(dispatched) :
        /\ m < n
        /\ dispatched[m].boss_id = dispatched[n].boss_id
        /\ dispatched[m].nxt = dispatched[n].nxt
        /\ dispatched[m].at = dispatched[n].at
        /\ dispatched[m].lead > dispatched[n].lead
        /\ dispatched[n].lead > 0

\* the +/-1-minute windows of any two different lead times are disjoint
NonOverlapping(intervals) ==
    \A m, n \in 1..Len(intervals) :
        intervals[m] > intervals[n] => intervals[m] - intervals[n] > 2

\* the lead times the tick of this step works with
StepIntervals ==
    IF tick.pc = "idle" THEN get_notification_intervals ELSE tick.intervals

\* C17: one tick dispatches at most one alert per entity. After the sends of
\* an appearance alert the tick dispatches nothing more for that entity;
\* after the sends of a lead-time alert it dispatches no appearance alert for
\* it and, when the windows of the lead times do not overlap, nothing at all;
\* and the alerts one step dispatches for one entity are never an appearance
\* alert together with another alert, and at most one when the windows do
\* not overlap.
C17_OneAlertPerEntityPerTick ==
    /\ [][ (tick.pc = "send" /\ tick.j = AppearedBranch) =>
               NewAlertsOf(tick.bosses[tick.i].id) = {} ]_vars
    /\ [][ (tick.pc = "send" /\ tick.j >= 1) =>
               /\ \A n \in NewAlertsOf(tick.bosses[tick.i].id) :
                      dispatched'[n].lead # 0
               /\ NonOverlapping(tick.intervals) =>
                      NewAlertsOf(tick.bosses[tick.i].id) = {} ]_vars
    /\ [][ \A m, n \in NewAlertIndices :
               (m # n /\ dispatched'[m].boss_id = dispatched'[n].boss_id) =>
                   /\ dispatched'[m].lead # 0
                   /\ dispatched'[n].lead # 0
                   /\ ~ NonOverlapping(StepIntervals) ]_vars

\* a tick dispatched the 5-minute alert for an entity and has ended; with the
\* lead times 15, 5, 1 it dispatched nothing else
C17_Witness ==
    /\ tick.pc = "idle"
    /\ subscribers # {}
    /\ Len(dispatched) = 1
    /\ dispatched[1].lead > 1
    /\ dispatched[1].at = clock
    /\ suppressed = {}
    /\ NonOverlapping(get_notification_intervals)

\* 4.5 minutes and 4 minutes, in seconds
FourAndAHalfMinutes == 4 * SecondsPerMinute + SecondsPerMinute \div 2

FourMinutes == 4 * SecondsPerMinute

\* C18: lead times 15, 5, 1 and an entity whose occurrence is 4.5 minutes
\* after now: the tick dispatches the 5-minute alert and nothing else for the
\* entity; a tick 30 seconds later (delta 4.0, same occurrence) dispatches
\* nothing for it.
C18_FiveMinuteAlertOnce ==
    /\ [][ (/\ TickStarted
            /\ subscribers # {}
            /\ ActiveBosses # <<>>
            /\ get_notification_intervals = <<15, 5, 1>>) =>
             LET boss == ActiveBosses[1]
                 nxt == boss_next_spawn(boss, get_server_restart)
                 five == Alert(boss, Val(nxt), 5, clock)
             IN  /\ (/\ nxt # None
                     /\ Val(nxt) - clock = FourAndAHalfMinutes
                     /\ AlertKey(five) \notin sent_notifications)
                       => dispatched' = Append(dispatched, five)
                 /\ (/\ nxt # None
                     /\ Val(nxt) - clock = FourMinutes
                     /\ \E m \in 1..Len(dispatched) :
                           dispatched[m] =
                              [five EXCEPT !.at = clock - SecondsPerMinute \div 2])
                       => NewAlertsOf(boss.id) = {}
         ]_vars
    /\ [][ (/\ tick.pc = "send"
            /\ tick.intervals = <<15, 5, 1>>
            /\ tick.nxt - tick.now = FourAndAHalfMinutes) =>
               /\ dispatched[Len(dispatched)].lead = 5
               /\ NewAlertsOf(tick.bosses[tick.i].id) = {} ]_vars

\* the 5-minute alert was dispatched at delta 4.5; the tick 30 seconds later
\* checked the same occurrence at delta 4.0 and found the key present; both
\* ticks have ended and the alert is the only one of the entity
C18_Witness ==
    \E s \in suppressed :
        /\ tick.pc = "idle"
        /\ get_notification_intervals = <<15, 5, 1>>
        /\ Len(dispatched) = 1
        /\ dispatched[1].lead = 5
        /\ DeltaOf(dispatched[1]) = FourAndAHalfMinutes
        /\ s = [dispatched[1] EXCEPT !.at = @ + SecondsPerMinute \div 2]
        /\ DeltaOf(s) = FourMinutes

\* C19: when an admin's /restart with instant t has run, the restart anchor
\* is t and no row of the catalog, active or not, has a recorded kill,
\* whatever the kills recorded before were; every boss's occurrence is then
\* the one computed from the anchor t alone.
C19_RestartResetsEveryEntity ==
    [][ \A dt \in RestartTimeArgs :
          CmdRestart(TRUE, dt) =>
              /\ get_server_restart' = Some(dt)
              /\ DOMAIN bosses' = DOMAIN bosses
              /\ \A id \in DOMAIN bosses' :
                    /\ bosses'[id].last_kill_at = None
                    /\ boss_next_spawn(bosses'[id], get_server_restart')
                          = next_spawn_at(None, Some(dt),
                                          bosses[id].first_spawn_minutes,
                                          bosses[id].respawn_minutes, None)
      ]_vars

\* a restart has run on a catalog that held a kill before the new anchor (of
\* the active boss) and a kill after it (of the inactive boss): the anchor is
\* set and no row has a kill
C19_Witness ==
    /\ budget < MaxCommands
    /\ get_server_restart # None
    /\ \E id \in DOMAIN bosses : ~ bosses[id].is_active
    /\ \A id \in DOMAIN bosses : bosses[id].last_kill_at = None
    /\ \E m, n \in 1..Len(kill_log) :
          /\ kill_log[m].killed_at < Val(get_server_restart)
          /\ bosses[kill_log[m].boss_id].is_active
          /\ kill_log[n].killed_at > Val(get_server_restart)
          /\ ~ bosses[kill_log[n].boss_id].is_active

\* what a kill of boss_id at `instant` leaves behind
KillFrame(boss_id, instant) ==
    /\ DOMAIN bosses' = DOMAIN bosses
    /\ bosses'[boss_id].last_kill_at = Some(instant)
    /\ \A id \in DOMAIN bosses \ {boss_id} :
          bosses'[id].last_kill_at = bosses[id].last_kill_at
    /\ get_server_restart' = get_server_restart
    /\ get_notification_intervals' = get_notification_intervals
    /\ sent_notifications' = sent_notifications
    /\ subscribers' = subscribers

\* the step is a kill of boss_id or a restart
KillOrRestart(boss_id) ==
    \/ \E killed_at \in KillTimeArgs : CmdKill(TRUE, boss_id, killed_at)
    \/ \E admin \in BOOLEAN : CallbackKillDo(admin, boss_id)
    \/ \E dt \in RestartTimeArgs : CmdRestart(TRUE, dt)

\* C20: a kill of an entity at an instant (by /kill or by the button) sets
\* that entity's kill to the instant and leaves the kill of every other
\* entity, the restart anchor, the lead times, the ledger and the subscribers
\* as they were; a recorded kill of an entity changes only in a kill of that
\* entity or a restart, and while it is recorded the entity's occurrence is
\* the kill plus its interval.
C20_KillFrame ==
    /\ [][ /\ \A boss_id \in DOMAIN bosses :
                /\ \A killed_at \in KillTimeArgs :
                      CmdKill(TRUE, boss_id, killed_at)
                          => KillFrame(boss_id, killed_at)
                /\ \A admin \in BOOLEAN :
                      CallbackKillDo(admin, boss_id) => KillFrame(boss_id, clock)
           /\ \A boss_id \in DOMAIN bosses \cap DOMAIN bosses' :
                (/\ bosses[boss_id].last_kill_at # None
                 /\ bosses'[boss_id].last_kill_at # bosses[boss_id].last_kill_at)
                    => KillOrRestart(boss_id)
         ]_vars
    /\ [](\A boss_id \in DOMAIN bosses :
             bosses[boss_id].last_kill_at # None =>
                 boss_next_spawn(bosses[boss_id], get_server_restart)
                    = Some(Val(bosses[boss_id].last_kill_at)
                              + bosses[boss_id].respawn_minutes * SecondsPerMinute))

\* a boss was killed at an instant that is now in the past, another boss
\* keeps its own, different kill, and the killed boss is still scheduled from
\* its kill
C20_Witness ==
    /\ budget < MaxCommands
    /\ kill_log # <<>>
    /\ LET last == kill_log[Len(kill_log)]
       IN  /\ last.boss_id \in DOMAIN bosses
           /\ bosses[last.boss_id].last_kill_at = Some(last.killed_at)
           /\ last.killed_at < clock
           /\ \E id \in DOMAIN bosses \ {last.boss_id} :
                 /\ bosses[id].last_kill_at # None
                 /\ bosses[id].last_kill_at # Some(last.killed_at)
           /\ boss_next_spawn(bosses[last.boss_id], get_server_restart)
                 = Some(last.killed_at
                          + bosses[last.boss_id].respawn_minutes * SecondsPerMinute)

\* the step appends the record of a kill of boss_id at `instant` to the log
KillApplied(boss_id, instant) ==
    kill_log' = Append(kill_log, [boss_id |-> boss_id, killed_at |-> instant])

\* C21: a kill of an entity at the instant the entity already holds as its
\* kill (the same Kill applied again, by /kill or by the button) leaves the
\* entity's row, so its lastKillInstant, and its derived occurrence as they
\* were after the first application.
C21_RepeatedKillIdempotent ==
    [][ \A boss_id \in DOMAIN bosses : \A instant \in KillTimeArgs :
            (/\ bosses[boss_id].last_kill_at = Some(instant)
             /\ KillApplied(boss_id, instant))
                => /\ bosses' = bosses
                   /\ (boss_next_spawn(bosses[boss_id], get_server_restart))'
                         = boss_next_spawn(bosses[boss_id], get_server_restart)
      ]_vars

\* the log holds the same kill of a boss twice, the boss holds that kill and
\* is scheduled one interval after it
C21_Witness ==
    \E m, n \in 1..Len(kill_log) :
        /\ m < n
        /\ n = Len(kill_log)
        /\ budget < MaxCommands
        /\ kill_log[m] = kill_log[n]
        /\ kill_log[n].boss_id \in DOMAIN bosses
        /\ LET boss == bosses[kill_log[n].boss_id]
           IN  /\ boss.last_kill_at = Some(kill_log[n].killed_at)
               /\ boss.respawn_minutes > 0
               /\ boss_next_spawn(boss, get_server_restart)
                     = Some(kill_log[n].killed_at + Minutes(boss.respawn_minutes))

\* C22: the kill log is append-only. It changes only by one record appended
\* at its end, (entity id, kill instant) of a kill that the entity's row
\* holds after the step; every kill of an entity of the table, by /kill of an
\* admin or by the button, appends that record; no other step (restart, tick,
\* /list, boss add, edit and delete, /notifications) changes the log; and a
\* step that changes nothing of an entity's row and the restart anchor
\* leaves the entity's occurrence as it was, whatever became of the log.
C22_KillLogAppendOnly ==
    [][ /\ \/ kill_log' = kill_log
           \/ \E boss_id \in DOMAIN bosses : \E instant \in KillTimeArgs :
                 /\ KillApplied(boss_id, instant)
                 /\ bosses'[boss_id].last_kill_at = Some(instant)
        /\ \A boss_id \in DOMAIN bosses :
              /\ \A instant \in KillTimeArgs :
                    CmdKill(TRUE, boss_id, instant) => KillApplied(boss_id, instant)
              /\ \A admin \in BOOLEAN :
                    CallbackKillDo(admin, boss_id) => KillApplied(boss_id, clock)
        /\ \A boss_id \in DOMAIN bosses \cap DOMAIN bosses' :
              (/\ bosses'[boss_id] = bosses[boss_id]
               /\ get_server_restart' = get_server_restart
               /\ clock' = clock)
                  => (boss_next_spawn(bosses[boss_id], get_server_restart))'
                        = boss_next_spawn(bosses[boss_id], get_server_restart)
      ]_vars

\* a kill was appended to a log that already held records, and the earlier
\* records, one of them of another boss, are still there
C22_Witness ==
    /\ budget < MaxCommands
    /\ Len(kill_log) >= 3
    /\ \E db \in StoredDatabases :
          /\ db.kill_log # <<>>
          /\ SubSeq(kill_log, 1, Len(db.kill_log)) = db.kill_log
          /\ Len(kill_log) = Len(db.kill_log) + 1
    /\ LET last == kill_log[Len(kill_log)]
       IN  /\ bosses[last.boss_id].last_kill_at = Some(last.killed_at)
           /\ \E n \in 1..(Len(kill_log) - 1) :
                 kill_log[n].boss_id # last.boss_id

\* the step is a request of a user who is no admin: a command or a press of
\* the kill button
NonAdminRequest ==
    \/ \E chat_id \in ChatIds : CmdList(chat_id)
    \/ \E a \in KillArgs(FALSE) : CmdKill(FALSE, a[1], a[2])
    \/ \E boss_id \in BossIdArgs : CallbackKillDo(FALSE, boss_id)
    \/ \E dt \in RestartArgs(FALSE) : CmdRestart(FALSE, dt)
    \/ \E a \in BossAddArgs(FALSE) : CmdBossAdd(FALSE, a[1], a[2], a[3])
    \/ \E boss_id \in BossDelArgs(FALSE) : CmdBossDel(FALSE, boss_id)
    \/ \E a \in BossEditArgs(FALSE) : CmdBossEdit(FALSE, a[1], a[2], a[3], a[4])
    \/ \E intervals \in NotificationArgs : CmdNotifications(FALSE, intervals)

\* C23: a request of a user who is no admin, through any command or inline
\* button, leaves the bosses table (every lastKillInstant and the catalog),
\* the server state row (restart anchor and lead times) and the kill log
\* unchanged.
C23_NonAdminLeavesStore ==
    [][ NonAdminRequest => UNCHANGED store_vars ]_vars

\* a list of distinct positive integers in descending order
DistinctPositiveDescending(q) ==
    \A n \in 1..Len(q) :
        /\ q[n] > 0
        /\ n < Len(q) => q[n] > q[n + 1]

\* C30: after a notification-config action of an admin the stored lead times
\* and the lead times a tick evaluates are distinct positive integers, the
\* latter in descending order.
C30_LeadTimesDistinctPositive ==
    [][ (\E intervals \in NotificationArgs : CmdNotifications(TRUE, intervals))
            => /\ DistinctPositiveDescending(get_notification_intervals')
               /\ DistinctPositiveDescending(
                      SortedDesc(Val(state_row').notification_intervals))
      ]_vars

\* the <resp> argument of a boss add or edit is missing or not positive
RejectedInterval(respawn_min) == respawn_min = None \/ Val(respawn_min) <= 0

\* the step is a boss add or edit of an admin with such an argument
AddOrEditRejected ==
    \/ \E a \in BossAddArgs(TRUE) :
          RejectedInterval(a[2]) /\ CmdBossAdd(TRUE, a[1], a[2], a[3])
    \/ \E a \in BossEditArgs(TRUE) :
          RejectedInterval(a[3]) /\ CmdBossEdit(TRUE, a[1], a[2], a[3], a[4])

\* C31: a boss add or edit whose respawn interval is missing or <= 0 leaves
\* the catalog unchanged; every row of the catalog has a respawn interval > 0
\* and a first-spawn offset that is None or >= 1.
C31_IntervalPositiveFirstAtLeastOne ==
    /\ [](\A id \in DOMAIN bosses :
            /\ bosses[id].respawn_minutes > 0
            /\ \/ bosses[id].first_spawn_minutes = None
               \/ Val(bosses[id].first_spawn_minutes) >= 1)
    /\ [][ AddOrEditRejected => bosses' = bosses ]_vars

\* a command with the first-spawn argument 0 was accepted: a row named "b"
\* (no stored database has one with a first-spawn offset) holds the offset 1
C31_Witness ==
    /\ budget < MaxCommands
    /\ \E id \in DOMAIN bosses :
          /\ bosses[id].name = "b"
          /\ bosses[id].first_spawn_minutes = Some(1)
          /\ bosses[id].respawn_minutes > 0

\* C33: the ledger only grows. No step (a tick, a send, /list, a kill, a
\* restart, /notifications, a boss add, edit or delete) removes an entry of
\* _sent_notifications, so the ledger of a state contains the ledger of every
\* earlier state.
C33_LedgerOnlyGrows ==
    [][ sent_notifications \subseteq sent_notifications' ]_vars

\* the ledger holds an entry that a command has outlived: its boss is no
\* longer in the table, or the restart anchor or the kill it was computed
\* from has been replaced
C33_Witness ==
    /\ budget < MaxCommands
    /\ \E m \in 1..Len(dispatched) :
          /\ AlertKey(dispatched[m]) \in sent_notifications
          /\ \/ dispatched[m].boss_id \notin DOMAIN bosses
             \/ LET nxt == boss_next_spawn(bosses[dispatched[m].boss_id],
                                           get_server_restart)
                IN  nxt = None \/ spawn_key(Val(nxt)) # spawn_key(dispatched[m].nxt)

\* a step of the tick job: its start, or the return of one of its sends
TickStep == TickStart \/ \E ok \in BOOLEAN : TickSend(ok)

\* C36: a tick never changes the database. A step of tick_notifications
\* leaves the bosses table (the catalog and every last_kill_at), the server
\* state row (the restart anchor and the lead times) and the kill log as they
\* are; of the program's state it changes only the ledger and the set of
\* subscribers.
C36_TickLeavesStore ==
    [][ TickStep =>
            /\ bosses' = bosses
            /\ state_row' = state_row
            /\ kill_log' = kill_log
            /\ handler' = handler
      ]_vars

\* a tick has dispatched an alert and every send of it failed, so the ledger
\* and the set of subscribers changed, and the database is as it was stored
C36_Witness ==
    /\ tick.pc = "idle"
    /\ dispatched # <<>>
    /\ sent_notifications # {}
    /\ subscribers = {}
    /\ budget = MaxCommands
    /\ \E db \in StoredDatabases :
          /\ bosses = db.bosses
          /\ state_row = db.state_row
          /\ kill_log = db.kill_log

\* C38: a tick that starts while no chat is subscribed does nothing. While no
\* job runs and the set of subscribers is empty, no step starts a job, adds a
\* ledger entry, dispatches an alert or evaluates a boss; an alert that was
\* due then is not marked as sent (a later tick dispatches it, see the
\* witness).
C38_TickWithoutSubscribersNoOp ==
    [][ (tick.pc = "idle" /\ subscribers = {}) =>
            /\ tick' = tick
            /\ sent_notifications' = sent_notifications
            /\ dispatched' = dispatched
            /\ suppressed' = suppressed
            /\ faults' = faults
      ]_vars

\* an appearance alert whose window was open at the start instant, when no
\* chat was subscribed, has been dispatched by a later tick
C38_Witness ==
    /\ dispatched # <<>>
    /\ dispatched[1].lead = 0
    /\ dispatched[1].at > StartInstant
    /\ appeared(dispatched[1].nxt - StartInstant)
    /\ AlertKey(dispatched[1]) \in sent_notifications

(***************************************************************************)
(* The tick job and its deliveries in detail: a second instance of         *)
(* tick_notifications may start while the first is suspended in a send,    *)
(* every send is recorded with its outcome, and chats talk to the bot with *)
(* /list and /start. The database is not changed in these runs.            *)
(***************************************************************************)
JobIds == {1, 2}

\* the locals of instance n of the job
Job(n) == IF n = 1 THEN tick ELSE overlap

\* The database of these runs, with the restart anchor at the start instant:
\*   - boss 1 appears at the start instant, boss 2 two minutes after it;
\*   - boss 1 holds a kill and a respawn interval that leads past the end of
\*     the calendar, boss 2 appears at the start instant.
DispatchDatabases ==
    { [bosses |-> (1 :> Boss("a", None, 2, TRUE, None))
                  @@ (2 :> Boss("b", Some(2), 1, TRUE, None)),
       state_row |-> Some([server_restart_at |-> Some(StartInstant),
                           notification_intervals |-> DefaultIntervals]),
       kill_log |-> <<>>],
      [bosses |-> (1 :> Boss("a", None, RespawnTooLong, TRUE,
                             Some(StartInstant - Minutes(10))))
                  @@ (2 :> Boss("b", None, 1, TRUE, None)),
       state_row |-> Some([server_restart_at |-> Some(StartInstant),
                           notification_intervals |-> DefaultIntervals]),
       kill_log |-> <<[boss_id |-> 1, killed_at |-> StartInstant - Minutes(10)]>>] }

InitDispatch ==
    /\ clock = StartInstant
    /\ CalcOff
    /\ \E db \in DispatchDatabases :
          /\ bosses = db.bosses
          /\ state_row = db.state_row
          /\ kill_log = db.kill_log
    /\ subscribers = {}
    /\ sent_notifications = {}
    /\ tick = TickIdle
    /\ handler = "idle"
    /\ budget = 0
    /\ dispatched = <<>>
    /\ suppressed = {}
    /\ faults = {}
    /\ overlap = TickIdle
    /\ deliveries = <<>>
    /\ contacted = {}
    /\ recycled = {}

\* the lead time of the alert a suspended job is sending (0: appearance)
LeadOf(t) == IF t.j = AppearedBranch THEN 0 ELSE t.intervals[t.j]

\* the place in `dispatched` of the alert a suspended job is sending
AlertIndex(t) ==
    CHOOSE m \in 1..Len(dispatched) :
        dispatched[m] = [boss_id |-> t.bosses[t.i].id, nxt |-> t.nxt,
                         lead |-> LeadOf(t), at |-> t.now]

\* the delivery history with the alerts a run of the loop dispatched: each is
\* addressed to list(_subscribers) as it is when the alert is dispatched
Addressed(history, fired, subs) ==
    history \o [n \in 1..(Len(fired) - Len(history)) |->
                   [to |-> subs, done |-> {}]]

\* the delivery history with one more send of alert m
Attempted(history, m, chat_id, ok) ==
    [history EXCEPT ![m].done = @ \cup {[chat_id |-> chat_id, ok |-> ok]}]

\* every instance starts on an empty ledger of its own
JobStart_private_ledger(n) ==
    /\ Job(n).pc = "idle"
    /\ n = 2 => tick.pc = "send"
    /\ IF subscribers = {}
       THEN UNCHANGED <<tick, overlap, sent_notifications, dispatched,
                        suppressed, faults, deliveries>>
       ELSE LET r == RunTick(NewTick, {}, Histories, subscribers)
            IN  /\ IF n = 1 THEN tick' = r.t /\ UNCHANGED overlap
                            ELSE overlap' = r.t /\ UNCHANGED tick
                /\ sent_notifications' = sent_notifications \cup r.sent
                /\ dispatched' = r.log.fired
                /\ suppressed' = r.log.found
                /\ faults' = r.log.raised
                /\ deliveries' = Addressed(deliveries, r.log.fired, subscribers)
    /\ UNCHANGED <<clock, calc_vars, store_vars, subscribers, handler, budget,
                   contacted, recycled>>

\* the job queue starts an instance of tick_notifications: the first one, or
\* a second one while the first is suspended in a send
JobStart(n) ==
    /\ Job(n).pc = "idle"
    /\ n = 2 => tick.pc = "send"
    /\ IF subscribers = {}
       THEN UNCHANGED <<tick, overlap, sent_notifications, dispatched,
                        suppressed, faults, deliveries>>
       ELSE LET r == RunTick(NewTick, sent_notifications, Histories, subscribers)
            IN  /\ IF n = 1 THEN tick' = r.t /\ UNCHANGED overlap
                            ELSE overlap' = r.t /\ UNCHANGED tick
                /\ sent_notifications' = r.sent
                /\ dispatched' = r.log.fired
                /\ suppressed' = r.log.found
                /\ faults' = r.log.raised
                /\ deliveries' = Addressed(deliveries, r.log.fired, subscribers)
    /\ UNCHANGED <<clock, calc_vars, store_vars, subscribers, handler, budget,
                   contacted, recycled>>

\* a send that raises takes the key of the alert out of the ledger, so that
\* a later tick sends the alert again
JobSend_failure_retries(n, ok) ==
    /\ Job(n).pc = "send"
    /\ LET t == Job(n)
           chat_id == Head(t.chats)
           subs == IF ok THEN subscribers ELSE subscribers \ {chat_id}
           rest == Tail(t.chats)
           sent_to == Attempted(deliveries, AlertIndex(t), chat_id, ok)
           kept == IF ok THEN sent_notifications
                   ELSE sent_notifications
                           \ {<<t.bosses[t.i].id, spawn_key(t.nxt), LeadOf(t)>>}
       IN  /\ subscribers' = subs
           /\ contacted' = IF ok THEN contacted ELSE contacted \ {chat_id}
           /\ IF rest # <<>>
              THEN /\ IF n = 1
                      THEN tick' = [t EXCEPT !.chats = rest] /\ UNCHANGED overlap
                      ELSE overlap' = [t EXCEPT !.chats = rest] /\ UNCHANGED tick
                   /\ deliveries' = sent_to
                   /\ sent_notifications' = kept
                   /\ UNCHANGED <<dispatched, suppressed, faults>>
              ELSE LET r == RunTick(AfterSends(t), kept, Histories, subs)
                   IN  /\ IF n = 1 THEN tick' = r.t /\ UNCHANGED overlap
                                   ELSE overlap' = r.t /\ UNCHANGED tick
                       /\ sent_notifications' = r.sent
                       /\ dispatched' = r.log.fired
                       /\ suppressed' = r.log.found
                       /\ faults' = r.log.raised
                       /\ deliveries' = Addressed(sent_to, r.log.fired, subs)
    /\ UNCHANGED <<clock, calc_vars, store_vars, handler, budget, recycled>>

\* a send that raises ends the job
JobSend_failure_aborts(n, ok) ==
    /\ Job(n).pc = "send"
    /\ LET t == Job(n)
           chat_id == Head(t.chats)
           subs == IF ok THEN subscribers ELSE subscribers \ {chat_id}
           rest == Tail(t.chats)
           sent_to == Attempted(deliveries, AlertIndex(t), chat_id, ok)
       IN  /\ subscribers' = subs
           /\ contacted' = IF ok THEN contacted ELSE contacted \ {chat_id}
           /\ IF ~ ok
              THEN /\ IF n = 1 THEN tick' = TickIdle /\ UNCHANGED overlap
                               ELSE overlap' = TickIdle /\ UNCHANGED tick
                   /\ deliveries' = sent_to
                   /\ UNCHANGED <<sent_notifications, dispatched, suppressed,
                                  faults>>
              ELSE IF rest # <<>>
              THEN /\ IF n = 1
                      THEN tick' = [t EXCEPT !.chats = rest] /\ UNCHANGED overlap
                      ELSE overlap' = [t EXCEPT !.chats = rest] /\ UNCHANGED tick
                   /\ deliveries' = sent_to
                   /\ UNCHANGED <<sent_notifications, dispatched, suppressed,
                                  faults>>
              ELSE LET r == RunTick(AfterSends(t), sent_notifications,
                                    Histories, subs)
                   IN  /\ IF n = 1 THEN tick' = r.t /\ UNCHANGED overlap
                                   ELSE overlap' = r.t /\ UNCHANGED tick
                       /\ sent_notifications' = r.sent
                       /\ dispatched' = r.log.fired
                       /\ suppressed' = r.log.found
                       /\ faults' = r.log.raised
                       /\ deliveries' = Addressed(sent_to, r.log.fired, subs)
    /\ UNCHANGED <<clock, calc_vars, store_vars, handler, budget, recycled>>

\* one `await context.bot.send_message` of instance n returns or raises
JobSend(n, ok) ==
    /\ Job(n).pc = "send"
    /\ LET t == Job(n)
           chat_id == Head(t.chats)
           subs == IF ok THEN subscribers ELSE subscribers \ {chat_id}
           rest == Tail(t.chats)
           sent_to == Attempted(deliveries, AlertIndex(t), chat_id, ok)
       IN  /\ subscribers' = subs
           /\ contacted' = IF ok THEN contacted ELSE contacted \ {chat_id}
           /\ IF rest # <<>>
              THEN /\ IF n = 1
                      THEN tick' = [t EXCEPT !.chats = rest] /\ UNCHANGED overlap
                      ELSE overlap' = [t EXCEPT !.chats = rest] /\ UNCHANGED tick
                   /\ deliveries' = sent_to
                   /\ UNCHANGED <<sent_notifications, dispatched, suppressed,
                                  faults>>
              ELSE LET r == RunTick(AfterSends(t), sent_notifications,
                                    Histories, subs)
                   IN  /\ IF n = 1 THEN tick' = r.t /\ UNCHANGED overlap
                                   ELSE overlap' = r.t /\ UNCHANGED tick
                       /\ sent_notifications' = r.sent
                       /\ dispatched' = r.log.fired
                       /\ suppressed' = r.log.found
                       /\ faults' = r.log.raised
                       /\ deliveries' = Addressed(sent_to, r.log.fired, subs)
    /\ UNCHANGED <<clock, calc_vars, store_vars, handler, budget, recycled>>

\* /list of a chat
ChatList(chat_id) ==
    /\ handler = "idle"
    /\ subscribers' = subscribers \cup {chat_id}
    /\ contacted' = contacted \cup {chat_id}
    /\ UNCHANGED <<clock, calc_vars, store_vars, sent_notifications, tick,
                   handler, budget, dispatched, suppressed, faults, overlap,
                   deliveries, recycled>>

\* /start or /help of a chat: the help text is sent, nothing is stored
ChatStart(chat_id) ==
    /\ handler = "idle"
    /\ contacted' = contacted \cup {chat_id}
    /\ UNCHANGED <<clock, calc_vars, bot_vars, overlap, deliveries, recycled>>

NextDispatch ==
    \/ Advance
    \/ \E n \in JobIds : JobStart(n)
    \/ \E n \in JobIds : \E ok \in BOOLEAN : JobSend(n, ok)
    \/ \E chat_id \in ChatIds : ChatList(chat_id)
    \/ \E chat_id \in ChatIds : ChatStart(chat_id)

SpecDispatch == InitDispatch /\ [][NextDispatch]_vars

\* the chat whose deliveries are slow: a send to it may never complete
SlowChat == SetMin(ChatIds)

\* a send of instance n to a chat other than the slow one returns or raises
PromptSend(n) ==
    /\ Job(n).pc = "send"
    /\ Head(Job(n).chats) # SlowChat
    /\ \E ok \in BOOLEAN : JobSend(n, ok)

\* The same runs with what the event loop and the network guarantee: time
\* passes and a send to a chat other than the slow one completes. Nothing
\* makes a send to the slow chat complete.
SpecDispatchFair ==
    /\ SpecDispatch
    /\ WF_vars(Advance)
    /\ \A n \in JobIds : WF_vars(PromptSend(n))

(***************************************************************************)
(* Claims about the deliveries, checked under SpecDispatch.                *)
(***************************************************************************)
\* the ledger keys that are due for a boss in a tick with the given snapshot
DueKeys(boss, restart, intervals, at) ==
    IF boss_next_spawn_raises(boss, restart) THEN {}
    ELSE
    LET nxt == boss_next_spawn(boss, restart) IN
    IF nxt = None THEN {}
    ELSE
    LET delta == Val(nxt) - at IN
    IF occurrence_passed(delta) THEN {}
    ELSE IF appeared(delta) THEN {<<boss.id, spawn_key(Val(nxt)), 0>>}
    ELSE {<<boss.id, spawn_key(Val(nxt)), intervals[j]>> :
             j \in {k \in 1..Len(intervals) : in_lead_window(intervals[k], delta)}}

\* the chats alert m was sent to, whatever the outcome
ChatsTried(m) == {d.chat_id : d \in deliveries[m].done}

\* a job is suspended in the sends of alert m
InFlight(m) ==
    \E n \in JobIds : Job(n).pc = "send" /\ AlertIndex(Job(n)) = m

\* the step is a send of instance n that raised
FailedSend(n) ==
    /\ Job(n).pc = "send"
    /\ [chat_id |-> Head(Job(n).chats), ok |-> FALSE]
          \in deliveries'[AlertIndex(Job(n))].done
             \ deliveries[AlertIndex(Job(n))].done

\* the bosses of job t after boss t.i that the loop has left behind when
\* the job has become u
LeftBehind(t, u) ==
    {k \in (t.i + 1)..Len(t.bosses) : u.pc = "idle" \/ k < u.i}

\* C24: when a send of an alert to one subscriber raises, (1) the subscriber
\* is removed from the subscriber set; (2) the job stays in the sends of the
\* same alert while chats of its list remain, so that an alert no job is
\* sending any more was sent to every chat it was addressed to; (3) after
\* the last send the loop goes on: unless the evaluation of a later boss
\* raises, every due key of every boss the loop has left behind is in the
\* ledger.
C24_FailedSendIsolated ==
    /\ [](\A m \in 1..Len(deliveries) :
             ~ InFlight(m) => ChatsTried(m) = deliveries[m].to)
    /\ [][ \A n \in JobIds :
             FailedSend(n) =>
                LET t == Job(n)
                    u == Job(n)'
                IN  /\ subscribers' = subscribers \ {Head(t.chats)}
                    /\ Tail(t.chats) # <<>> =>
                          u = [t EXCEPT !.chats = Tail(t.chats)]
                    /\ (Tail(t.chats) = <<>> /\ faults' = faults) =>
                          \A k \in LeftBehind(t, u) :
                              DueKeys(t.bosses[k], t.restart, t.intervals, t.now)
                                 \subseteq sent_notifications'
       ]_vars

\* an alert addressed to two chats was sent to both, the first send raised
\* and that chat is no subscriber any more, and the same tick went on to
\* dispatch an alert for another boss
C24_Witness ==
    \E m \in 1..Len(deliveries) :
        /\ ~ InFlight(m)
        /\ deliveries[m].to = ChatIds
        /\ [chat_id |-> SetMin(ChatIds), ok |-> FALSE] \in deliveries[m].done
        /\ [chat_id |-> SetMax(ChatIds), ok |-> TRUE] \in deliveries[m].done
        /\ SetMin(ChatIds) \notin subscribers
        /\ \E k \in 1..Len(dispatched) :
              /\ k > m
              /\ dispatched[k].at = dispatched[m].at
              /\ dispatched[k].boss_id # dispatched[m].boss_id

\* C25: when the evaluation of an entity raised in a tick and no instance of
\* the job is running any more, every key that was due in that tick for an
\* active entity after the faulting one is in the ledger (stated at the
\* instant of the tick, before the clock moves on).
C25_FaultIsolated ==
    (\A n \in JobIds : Job(n).pc = "idle") =>
        \A f \in faults :
            f.at = clock =>
                \A k \in 1..Len(ActiveBosses) :
                    ActiveBosses[k].id > f.boss_id =>
                        DueKeys(ActiveBosses[k], get_server_restart,
                                get_notification_intervals, f.at)
                           \subseteq sent_notifications

\* the ledger key of the alert a suspended job is sending
KeyInFlight(t) == <<t.bosses[t.i].id, spawn_key(t.nxt), LeadOf(t)>>

\* C26: with a second instance of the tick starting while the first is
\* suspended in a send, no two dispatched alerts have the same (entity,
\* occurrence key, lead), and whenever an instance is suspended in the sends
\* of an alert the key of that alert is already in the ledger.
C26_NoDuplicateAcrossOverlap ==
    /\ \A m, n \in 1..Len(dispatched) :
          m < n => AlertKey(dispatched[m]) # AlertKey(dispatched[n])
    /\ \A n \in JobIds :
          Job(n).pc = "send" => KeyInFlight(Job(n)) \in sent_notifications

\* both instances are suspended in sends, of different alerts of the same
\* instant, and the second instance found the key of the first one's alert
\* in the ledger
C26_Witness ==
    /\ tick.pc = "send"
    /\ overlap.pc = "send"
    /\ overlap.now = tick.now
    /\ KeyInFlight(overlap) # KeyInFlight(tick)
    /\ \E s \in suppressed :
          /\ AlertKey(s) = KeyInFlight(tick)
          /\ s.at = overlap.now

\* an alert addressed to the chat is held up behind the send to another chat
Waiting(chat_id) ==
    \E n \in JobIds :
        /\ Job(n).pc = "send"
        /\ \E k \in 2..Len(Job(n).chats) : Job(n).chats[k] = chat_id

\* C27: a send to one subscriber that is slow or never completes does not
\* keep the same alert from the other subscribers: a chat that an alert is
\* addressed to behind the slow chat does not wait for ever (checked under
\* SpecDispatchFair, where only sends to the slow chat may never complete).
C27_SlowSendDoesNotBlock ==
    \A chat_id \in ChatIds \ {SlowChat} :
        Waiting(chat_id) ~> ~ Waiting(chat_id)

\* C28: the subscribers are exactly the chats whose latest event is a
\* command of theirs rather than a failed delivery to them: a chat is added
\* by its first command, whichever it is, removed only by a failed delivery,
\* and added again by its next command.
C28_SubscribedByAnyCommand == subscribers = contacted

\* a send of alert m raised
SendFailed(m) == \E d \in deliveries[m].done : ~ d.ok

\* C29: no retry. The key of every dispatched alert is in the ledger from
\* its dispatch on, so before the first send of the alert; an alert is sent
\* at most once to a chat, and only to the chats it was addressed to; and an
\* alert of which a send raised is the only dispatched alert with its key:
\* no later tick dispatches it again, whoever subscribes in between.
C29_NoRetryAfterFailure ==
    \A m \in 1..Len(dispatched) :
        /\ AlertKey(dispatched[m]) \in sent_notifications
        /\ ChatsTried(m) \subseteq deliveries[m].to
        /\ Cardinality(deliveries[m].done) = Cardinality(ChatsTried(m))
        /\ SendFailed(m) =>
              \A n \in 1..Len(dispatched) :
                  n # m => AlertKey(dispatched[n]) # AlertKey(dispatched[m])

\* every send of an alert raised, a chat it was addressed to has subscribed
\* again, and a later tick evaluated the same key and found it in the ledger
C29_Witness ==
    \E m \in 1..Len(dispatched) :
        /\ deliveries[m].to # {}
        /\ ChatsTried(m) = deliveries[m].to
        /\ \A d \in deliveries[m].done : ~ d.ok
        /\ deliveries[m].to \cap subscribers # {}
        /\ \E s \in suppressed :
              /\ AlertKey(s) = AlertKey(dispatched[m])
              /\ s.at > dispatched[m].at

(***************************************************************************)
(* Rows deleted and added while the ticks run: the commands are /list,     *)
(* /boss_add and /boss_del.                                                *)
(***************************************************************************)
\* number of /boss_add and /boss_del commands of a run that change the table
MaxCatalogCommands == 2

\* The database of these runs, with the restart anchor at the start instant:
\* one boss, or two bosses of which the second has a first-spawn offset.
CatalogDatabases ==
    { [bosses |-> (1 :> Boss("a", None, 2, TRUE, None)),
       state_row |-> Some([server_restart_at |-> Some(StartInstant),
                           notification_intervals |-> DefaultIntervals]),
       kill_log |-> <<>>],
      [bosses |-> (1 :> Boss("a", None, 2, TRUE, None))
                  @@ (2 :> Boss("b", Some(1), 1, TRUE, None)),
       state_row |-> Some([server_restart_at |-> Some(StartInstant),
                           notification_intervals |-> DefaultIntervals]),
       kill_log |-> <<>>] }

InitCatalog ==
    /\ clock = StartInstant
    /\ CalcOff
    /\ \E db \in CatalogDatabases :
          /\ bosses = db.bosses
          /\ state_row = db.state_row
          /\ kill_log = db.kill_log
    /\ subscribers = {}
    /\ sent_notifications = {}
    /\ tick = TickIdle
    /\ handler = "idle"
    /\ budget = MaxCatalogCommands
    /\ dispatched = <<>>
    /\ suppressed = {}
    /\ faults = {}
    /\ overlap = TickIdle
    /\ deliveries = <<>>
    /\ contacted = {}
    /\ recycled = {}

NextCatalog ==
    \/ Advance
    \/ TickStart
    \/ \E ok \in BOOLEAN : TickSend(ok)
    \/ \E chat_id \in ChatIds : CmdList(chat_id)
    \/ \E admin \in BOOLEAN : \E a \in BossAddArgs(admin) :
          CmdBossAdd(admin, a[1], a[2], a[3])
    \/ \E admin \in BOOLEAN : \E boss_id \in BossDelArgs(admin) :
          CmdBossDel(admin, boss_id)

SpecCatalog == InitCatalog /\ [][NextCatalog]_vars

\* C32: ledger entries left behind by a deleted row are harmless. A tick that
\* starts (it reads the rows now in the table) never finds the key of an
\* alert that is due in the ledger because of an entry that was there before
\* the row was added: no check of such a tick is answered by an entry whose
\* boss id was given to a new row.
C32_OrphanedEntriesHarmless ==
    [][ TickStarted =>
            \A s \in suppressed' \ suppressed : AlertKey(s) \notin recycled
      ]_vars

(***************************************************************************)
(* Kills and restarts while the ticks run, with two active bosses: the     *)
(* commands are /list, /kill, the kill button and /restart.                *)
(***************************************************************************)
\* number of kills and restarts of a run
MaxKills == 1

\* the database of these runs: the one of CatalogDatabases with two bosses
KillDatabases == {db \in CatalogDatabases : Cardinality(DOMAIN db.bosses) = 2}

InitKills ==
    /\ clock = StartInstant
    /\ CalcOff
    /\ \E db \in KillDatabases :
          /\ bosses = db.bosses
          /\ state_row = db.state_row
          /\ kill_log = db.kill_log
    /\ subscribers = {}
    /\ sent_notifications = {}
    /\ tick = TickIdle
    /\ handler = "idle"
    /\ budget = MaxKills
    /\ dispatched = <<>>
    /\ suppressed = {}
    /\ faults = {}
    /\ overlap = TickIdle
    /\ deliveries = <<>>
    /\ contacted = {}
    /\ recycled = {}

NextKills ==
    \/ Advance
    \/ TickStart
    \/ \E ok \in BOOLEAN : TickSend(ok)
    \/ \E chat_id \in ChatIds : CmdList(chat_id)
    \/ \E admin \in BOOLEAN : \E a \in KillArgs(admin) : CmdKill(admin, a[1], a[2])
    \/ \E admin \in BOOLEAN : \E boss_id \in BossIdArgs :
          CallbackKillDo(admin, boss_id)
    \/ \E admin \in BOOLEAN : \E dt \in RestartArgs(admin) : CmdRestart(admin, dt)
    \/ \E failed \in SUBSET ChatIds : RestartNotify(failed)

SpecKills == InitKills /\ [][NextKills]_vars

\* the boss is scheduled from a kill and the occurrence, the kill instant plus
\* the interval, is a minute or more before the instant `at`
KillStale(boss, at) ==
    /\ boss.last_kill_at # None
    /\ boss.respawn_minutes > 0
    /\ Val(boss.last_kill_at) + Minutes(boss.respawn_minutes) <= at - Minutes(1)

\* C34: for a boss scheduled from a kill whose occurrence, the kill instant
\* plus the interval, is a minute or more in the past, a tick dispatches no
\* alert: neither in the step that starts the tick, for the rows it reads,
\* nor in a later step of the tick, for the rows it has read. This holds tick
\* after tick for as long as the row keeps its kill and its interval.
C34_StaleKillStaysSilent ==
    [][ /\ TickStarted =>
              \A id \in DOMAIN bosses :
                  KillStale(bosses[id], clock) => NewAlertsOf(id) = {}
        /\ tick.pc = "send" =>
              \A n \in 1..Len(tick.bosses) :
                  KillStale(tick.bosses[n], tick.now) =>
                      NewAlertsOf(tick.bosses[n].id) = {}
      ]_vars

\* a tick read an active boss with such a kill and dispatched the alert of
\* another boss, none for the killed one, which is evaluated before it
C34_Witness ==
    /\ tick.pc = "send"
    /\ tick.i > 1
    /\ KillStale(tick.bosses[1], tick.now)
    /\ dispatched # <<>>
    /\ dispatched[Len(dispatched)].at = tick.now
    /\ dispatched[Len(dispatched)].boss_id = tick.bosses[tick.i].id
    /\ \A n \in 1..Len(dispatched) :
          dispatched[n].boss_id # tick.bosses[1].id

\* C37: an alert is never about an occurrence computed from a state that a
\* committed kill or restart has replaced, also when the tick started before
\* the command and was suspended in a send while it ran: the occurrence of
\* every alert a step dispatches is the one next_spawn_at gives, at that
\* moment, for the row and the restart anchor now in the database.
C37_NoAlertFromSupersededState ==
    [][ \A n \in NewAlertIndices :
            LET d == dispatched'[n]
            IN  /\ d.boss_id \in DOMAIN bosses
                /\ boss_next_spawn(bosses[d.boss_id], get_server_restart)
                       = Some(d.nxt)
      ]_vars

(***************************************************************************)
(* The ticks on their period: run_repeating(interval=60) starts a tick     *)
(* every 60 seconds, here at the whole minutes. Time passes a whole minute *)
(* only when the tick of that minute has nothing left to do. The commands  *)
(* are /list and /restart; the set of subscribers is non-empty from the    *)
(* first restart on.                                                       *)
(***************************************************************************)
\* number of restarts of a run
MaxRestarts == 2

\* number of clock steps of a run
MaxPeriodicSteps == 10

\* The database of these runs, with no restart recorded: two active bosses;
\* in the second one the respawn interval of boss 1 leads past the end of the
\* calendar and boss 2 appears four minutes after the restart.
PeriodicDatabases ==
    { [bosses |-> (1 :> Boss("a", None, 2, TRUE, None))
                  @@ (2 :> Boss("b", Some(1), 1, TRUE, None)),
       state_row |-> None,
       kill_log |-> <<>>],
      [bosses |-> (1 :> Boss("a", None, RespawnTooLong, TRUE, None))
                  @@ (2 :> Boss("b", Some(4), 1, TRUE, None)),
       state_row |-> None,
       kill_log |-> <<>>] }

InitPeriodic ==
    /\ clock = StartInstant
    /\ CalcOff
    /\ \E db \in PeriodicDatabases :
          /\ bosses = db.bosses
          /\ state_row = db.state_row
          /\ kill_log = db.kill_log
    /\ subscribers = {}
    /\ sent_notifications = {}
    /\ tick = TickIdle
    /\ handler = "idle"
    /\ budget = MaxRestarts
    /\ dispatched = <<>>
    /\ suppressed = {}
    /\ faults = {}
    /\ overlap = TickIdle
    /\ deliveries = <<>>
    /\ contacted = {}
    /\ recycled = {}

\* the job queue starts a tick at this instant
TickInstant == (clock - StartInstant) % SecondsPerMinute = 0

\* the tick of this instant has run: no job is suspended and a tick started
\* now would change nothing (a tick repeated at one instant finds every key
\* it recorded)
TickDone ==
    /\ tick.pc = "idle"
    /\ \/ subscribers = {}
       \/ LET r == RunTick(NewTick, sent_notifications, Histories, subscribers)
          IN  /\ r.t = TickIdle
              /\ r.sent = sent_notifications
              /\ r.log = Histories

PeriodicAdvance ==
    /\ TickInstant => TickDone
    /\ clock < StartInstant + MaxPeriodicSteps * ClockStep
    /\ clock' = clock + ClockStep
    /\ UNCHANGED <<calc_vars, bot_vars, job_vars>>

PeriodicTick == TickInstant /\ TickStart

\* a send returns or raises; some chat stays subscribed
PeriodicSend(ok) == TickSend(ok) /\ subscribers' # {}

\* /restart of an admin, while some chat is subscribed
PeriodicRestart(dt) == subscribers # {} /\ CmdRestart(TRUE, dt)

PeriodicNotify(failed) == RestartNotify(failed) /\ subscribers' # {}

NextPeriodic ==
    \/ PeriodicAdvance
    \/ PeriodicTick
    \/ \E ok \in BOOLEAN : PeriodicSend(ok)
    \/ \E chat_id \in ChatIds : CmdList(chat_id)
    \/ \E dt \in RestartArgs(TRUE) : PeriodicRestart(dt)
    \/ \E failed \in SUBSET ChatIds : PeriodicNotify(failed)

SpecPeriodic == InitPeriodic /\ [][NextPeriodic]_vars

\* the first occurrence of a boss after the restart
FirstOccurrenceOf(boss) ==
    Val(get_server_restart)
        + (IF boss.first_spawn_minutes = None THEN 0
           ELSE Minutes(Val(boss.first_spawn_minutes)))

\* C35: with a tick every 60 seconds, a subscriber at all times and no kill,
\* restart or edit after the restart, the appearance alert of a boss awaiting
\* its first spawn is dispatched for exactly its first occurrence. The window
\* of the alert ends a minute after the occurrence: once the clock is there,
\* an alert with lead 0 for this boss and this occurrence has been dispatched.
C35_AppearanceAlertDispatched ==
    \A id \in DOMAIN bosses :
        ( /\ bosses[id].is_active
          /\ bosses[id].last_kill_at = None
          /\ get_server_restart # None
          /\ clock >= FirstOccurrenceOf(bosses[id]) + Minutes(1) )
        => \E n \in 1..Len(dispatched) :
              /\ dispatched[n].boss_id = id
              /\ dispatched[n].lead = 0
              /\ dispatched[n].nxt = FirstOccurrenceOf(bosses[id])

(***************************************************************************)
(* The ticks over a database that no command changes: the commands are     *)
(* /list only, and time passes for two and a half minutes.                 *)
(***************************************************************************)
\* number of clock steps of a run
MaxSteadySteps == 5

\* The database of these runs, with the restart anchor at the start instant:
\* boss 1 first appears two minutes after it, boss 2 was killed at the start
\* instant and respawns three minutes after it. The lead times are the
\* default ones, or those stored by `/notifications 1 2 1`.
SteadyDatabases ==
    { [bosses |-> (1 :> Boss("a", Some(2), 1, TRUE, None))
                  @@ (2 :> Boss("b", None, 3, TRUE, Some(StartInstant))),
       state_row |-> Some([server_restart_at |-> Some(StartInstant),
                           notification_intervals |-> intervals]),
       kill_log |-> <<[boss_id |-> 2, killed_at |-> StartInstant]>>] :
      intervals \in {DefaultIntervals, <<1, 2, 1>>} }

InitSteady ==
    /\ clock = StartInstant
    /\ CalcOff
    /\ \E db \in SteadyDatabases :
          /\ bosses = db.bosses
          /\ state_row = db.state_row
          /\ kill_log = db.kill_log
    /\ subscribers = {}
    /\ sent_notifications = {}
    /\ tick = TickIdle
    /\ handler = "idle"
    /\ budget = 0
    /\ dispatched = <<>>
    /\ suppressed = {}
    /\ faults = {}
    /\ overlap = TickIdle
    /\ deliveries = <<>>
    /\ contacted = {}
    /\ recycled = {}

\* time passes
SteadyAdvance ==
    /\ clock < StartInstant + MaxSteadySteps * ClockStep
    /\ clock' = clock + ClockStep
    /\ UNCHANGED <<calc_vars, bot_vars, job_vars>>

NextSteady ==
    \/ SteadyAdvance
    \/ TickStart
    \/ \E ok \in BOOLEAN : TickSend(ok)
    \/ \E chat_id \in ChatIds : CmdList(chat_id)

SpecSteady == InitSteady /\ [][NextSteady]_vars

\* two alerts are about the same occurrence of the same boss
SameOccurrence(a, b) ==
    a.boss_id = b.boss_id /\ spawn_key(a.nxt) = spawn_key(b.nxt)

\* C39: while the database stays as it is and time moves forward, the alerts
\* for one occurrence of one boss are dispatched in order of decreasing lead:
\* of two alerts with the same boss and occurrence key the later one has the
\* smaller lead, so no lead-time alert follows the appearance alert (lead 0).
C39_DecreasingLeadPerOccurrence ==
    \A m, n \in 1..Len(dispatched) :
        (m < n /\ SameOccurrence(dispatched[m], dispatched[n]))
            => dispatched[n].lead < dispatched[m].lead

\* the alerts with lead 2, lead 1 and lead 0 of one occurrence have been
\* dispatched, in this order
C39_Witness ==
    \E k, m, n \in 1..Len(dispatched) :
        /\ k < m /\ m < n
        /\ SameOccurrence(dispatched[k], dispatched[m])
        /\ SameOccurrence(dispatched[m], dispatched[n])
        /\ dispatched[k].lead = 2
        /\ dispatched[m].lead = 1
        /\ dispatched[n].lead = 0

(***************************************************************************)
(* The calculator on its own: every argument drawn from the input space,   *)
(* one call.                                                               *)
(***************************************************************************)
CalcInit ==
    /\ clock \in NowInstants
    /\ last_kill_at \in Opt(KillInstants)
    /\ server_restart_at \in Opt(RestartInstants)
    /\ first_spawn_minutes \in Opt(FirstSpawnValues)
    /\ respawn_minutes \in RespawnValues
    /\ now \in {None, Some(clock)}
    /\ result = None
    /\ calc_pc = "call"
    /\ BotInit

CalcCall ==
    /\ calc_pc = "call"
    /\ result' = next_spawn_at(last_kill_at, server_restart_at,
                               first_spawn_minutes, respawn_minutes, now)
    /\ calc_pc' = "done"
    /\ UNCHANGED <<clock, last_kill_at, server_restart_at, first_spawn_minutes,
                   respawn_minutes, now, bot_vars, job_vars>>

CalcNext == CalcCall

SpecCalc == CalcInit /\ [][CalcNext]_vars

(***************************************************************************)
(* Claims about next_spawn_at, checked under SpecCalc.                     *)
(***************************************************************************)
CalcDone == calc_pc = "done"

\* the `now` the call works with
NowUsed == IF now = None THEN clock ELSE Val(now)

\* serverRestartInstant + firstSpawnOffset minutes, an absent offset counting as 0
FirstOccurrence ==
    Val(server_restart_at)
        + (IF first_spawn_minutes = None THEN 0
           ELSE Val(first_spawn_minutes) * SecondsPerMinute)

\* no kill, a restart anchor, a positive interval
RestartAnchored ==
    /\ CalcDone
    /\ last_kill_at = None
    /\ server_restart_at # None
    /\ respawn_minutes > 0

Interval == respawn_minutes * SecondsPerMinute

Stale == NowUsed - FirstOccurrence

\* the least k with k * b >= a, for b > 0
LeastCycles(a, b) ==
    CHOOSE k \in {a \div b, (a \div b) + 1} : (k - 1) * b < a /\ a <= k * b

\* C2: with lastKillInstant set and interval > 0 the result is exactly
\* lastKillInstant + interval minutes, whatever now, the restart anchor and
\* the offset are.
C2_KillPlusInterval ==
    (CalcDone /\ last_kill_at # None /\ respawn_minutes > 0)
        => result = Some(Val(last_kill_at) + Interval)

\* a kill whose occurrence is hours before now, with a restart anchor present
C2_Witness ==
    /\ CalcDone
    /\ last_kill_at # None
    /\ respawn_minutes > 0
    /\ server_restart_at # None
    /\ Val(last_kill_at) + Interval < NowUsed - 2 * Interval
    /\ result = Some(Val(last_kill_at) + Interval)

\* C3: for every interval <= 0 the result is None, also when lastKillInstant
\* is set.
C3_NonPositiveIntervalUnscheduled ==
    (CalcDone /\ respawn_minutes <= 0) => result = None

C3_Witness ==
    /\ CalcDone
    /\ respawn_minutes < 0
    /\ last_kill_at # None
    /\ server_restart_at # None
    /\ result = None

\* C4: with no lastKillInstant and no serverRestartInstant the result is None
\* for every interval, offset and now.
C4_UnanchoredUnscheduled ==
    (CalcDone /\ last_kill_at = None /\ server_restart_at = None)
        => result = None

C4_Witness ==
    /\ CalcDone
    /\ last_kill_at = None
    /\ server_restart_at = None
    /\ respawn_minutes > 0
    /\ first_spawn_minutes # None
    /\ result = None

\* C5: restart-anchored and now <= firstOccurrence: the result is
\* firstOccurrence unchanged.
C5_PendingFirstOccurrence ==
    (RestartAnchored /\ NowUsed <= FirstOccurrence)
        => result = Some(FirstOccurrence)

\* the first occurrence is more than a whole interval ahead of now
C5_Witness ==
    /\ RestartAnchored
    /\ first_spawn_minutes # None
    /\ NowUsed + Interval < FirstOccurrence
    /\ result = Some(FirstOccurrence)

\* C6: restart-anchored and 0 < now - firstOccurrence <= 2 minutes: the result
\* is firstOccurrence itself, not advanced by any interval, for every
\* interval > 0.
C6_GraceWindowKeepsFirst ==
    (RestartAnchored /\ 0 < Stale /\ Stale <= 2 * SecondsPerMinute)
        => result = Some(FirstOccurrence)

\* an interval (1 minute) shorter than the staleness (more than 1 minute)
C6_Witness ==
    /\ RestartAnchored
    /\ Interval < Stale
    /\ Stale <= 2 * SecondsPerMinute
    /\ result = Some(FirstOccurrence)

C8_ScenarioA ==
    (/\ CalcDone
     /\ last_kill_at = None
     /\ server_restart_at = Some(HMS(9, 0, 0))
     /\ first_spawn_minutes = Some(60)
     /\ respawn_minutes = 120
     /\ NowUsed = HMS(12, 0, 0))
        => result = Some(HMS(14, 0, 0))

C10_CatchUpStrictlyAfterNow ==
    (RestartAnchored /\ Stale > 2 * SecondsPerMinute)
        => (result # None /\ Val(result) > NowUsed)

\* the smallest firstOccurrence + n * interval, n >= 0, strictly after `bound`
SmallestAfter(bound) ==
    IF FirstOccurrence > bound THEN FirstOccurrence
    ELSE FirstOccurrence
            + (((bound - FirstOccurrence) \div Interval) + 1) * Interval

\* the smallest firstOccurrence + n * interval, n >= 1, not before `bound`
SmallestCycleFrom(bound) ==
    IF FirstOccurrence + Interval >= bound THEN FirstOccurrence + Interval
    ELSE FirstOccurrence
            + (((bound - FirstOccurrence - 1) \div Interval) + 1) * Interval

ResultAt(instant) ==
    next_spawn_at(last_kill_at, server_restart_at, first_spawn_minutes,
                  respawn_minutes, Some(instant))

\* C40: with the kill instant, the restart anchor, the offset and the
\* interval fixed, next_spawn_at is non-decreasing in now: for every later now
\* for which a result exists too, the result is not before the result of this
\* call; with a kill set, the result is the same for every now.
C40_NonDecreasingInNow ==
    CalcDone =>
        \A later \in NowInstants :
            NowUsed <= later =>
                /\ (result # None /\ ResultAt(later) # None)
                        => Val(result) <= Val(ResultAt(later))
                /\ last_kill_at # None => ResultAt(later) = result

\* the call fell into the grace window and returned the first occurrence; at
\* a later now the result is a later cycle
C40_Witness ==
    /\ RestartAnchored
    /\ Stale > 0
    /\ result = Some(FirstOccurrence)
    /\ \E later \in NowInstants :
          /\ NowUsed < later
          /\ Val(ResultAt(later)) > FirstOccurrence

====
